---- MODULE Spec2Model ----
(***************************************************************************)
(* Model of the chunked conversion pipeline of Backend/code_converter.py   *)
(* (CodeConverter.convert_code_chunks and the methods it calls) and of the *)
(* salvage parser extract_json_from_response of Backend/app.py.            *)
(*                                                                         *)
(* Data representation                                                     *)
(*   - A code text is the sequence of its lines (the text is the lines     *)
(*     joined by "\n"); the empty text is one empty line.  A line is one   *)
(*     of the concrete strings of the table LineInfo, which records what   *)
(*     the regular expressions and string tests of the source find in it.  *)
(*   - A JSON / Python value is a record [t, v]: t is its type tag and v   *)
(*     its content as a sequence of lines (the lines of a string, the      *)
(*     items of a list, the one line "5" for the number 5).                *)
(*   - A parsed response is a record [kind, convertedCode,                 *)
(*     conversionNotes, potentialIssues, databaseUsed]; kind = "obj" is a  *)
(*     dict, whose missing keys hold the value Absent.                     *)
(*   - The text of an engine response is a sequence of segments: prose,    *)
(*     a complete JSON document, a truncated object, a fence marker.       *)
(***************************************************************************)
EXTENDS Integers, Sequences, FiniteSets, TLC

VARIABLES
    pc,          \* position of the job: start, transform, merge, polish, done
    target,      \* target_language of the job
    nChunks,     \* len(chunks)
    idx,         \* 0-based index i of the chunk the transform loop is at
    planReply,   \* what the engine answered to the planning call
    structure,   \* structure_result of phase 1
    replies,     \* what the engine answered to the transform calls, in call order
    results,     \* conversion_results, in append order
    mergePath,   \* which merge produced merged_code, or which one raised
    merged,      \* merged_code after merging, before polishing
    prepolish,   \* `polished` of _polish_code at the point of its external call
    allIssues,   \* all_issues at the point of the polish call
    polishOut,   \* the answer to the polish call and what the gate made of it
    trace,       \* the steps taken so far, in order
    output,      \* what the caller got: a returned result, or an exception
    peer,        \* the locals of the other job of two interleaved jobs, while
                 \* it does not run; NoPeer for a job that runs alone
    request      \* the request to /api/convert that is served, and how far
                 \* its handler is; NoRequest for a job that is run directly

vars == <<pc, target, nChunks, idx, planReply, structure, replies, results,
          mergePath, merged, prepolish, allIssues, polishOut, trace, output, peer,
          request>>

----------------------------------------------------------------------------
(* Bounds of the model *)

MaxChunks == 2

----------------------------------------------------------------------------
(* Python / JSON values *)

Absent == [t |-> "absent", v |-> <<>>]
None == [t |-> "null", v |-> <<>>]
Num(n) == [t |-> "num", v |-> <<[ind |-> 0, txt |-> n]>>]
Bool(b) == [t |-> "bool", v |-> <<[ind |-> 0, txt |-> IF b THEN "true" ELSE "false"]>>]
Str(lines) == [t |-> "str", v |-> lines]
List(items) == [t |-> "list", v |-> items]

\* Python truth value of a value (None, 0, False, "", [] are falsy)
Truthy(val) ==
    CASE val.t \in {"absent", "null"} -> FALSE
      [] val.t = "num" -> val.v[1].txt # "0"
      [] val.t = "bool" -> val.v[1].txt = "true"
      [] val.t = "str" -> val.v # <<[ind |-> 0, txt |-> ""]>>
      [] OTHER -> val.v # <<>>

\* dict.get(key, default) on the value stored under the key
Get(val, default) == IF val.t = "absent" THEN default ELSE val

Dict(code, notes, issues, db) ==
    [kind |-> "obj", convertedCode |-> code, conversionNotes |-> notes,
     potentialIssues |-> issues, databaseUsed |-> db]

\* a parsed JSON document that is not an object: null, a number, a string, a list
NonDict(k) ==
    [kind |-> k, convertedCode |-> Absent, conversionNotes |-> Absent,
     potentialIssues |-> Absent, databaseUsed |-> Absent]

IsOOP(lang) == lang \in {"Java", "C#"}

\* the element of a one-element set: The({e(x) : x \in {v}}) is e(v), with v
\* evaluated once
The(S) == CHOOSE x \in S : TRUE

----------------------------------------------------------------------------
(* Code texts as sequences of lines *)

\* a line: ind leading blanks, then txt (no leading or trailing blanks)
Ln(s) == [ind |-> 0, txt |-> s]
Indented(n, s) == [ind |-> n, txt |-> s]

\* "".split("\n"): the empty text has one empty line
EmptyText == <<Ln("")>>

IsBlank(l) == l.txt = ""

\* the line of k closing braces that _polish_code appends: "}" * k
CloseLine(k) ==
    CASE k = 1 -> "}"
      [] k = 2 -> "}}"
      [] k = 3 -> "}}}"
      [] k = 4 -> "}}}}"
      [] k = 5 -> "}}}}}"
      [] k = 6 -> "}}}}}}"
      [] k = 7 -> "}}}}}}}"
      [] OTHER -> "}}}}}}}}"

Plain ==
    [opens |-> 0, closes |-> 0, tries |-> 0, catches |-> 0, methods |-> 0,
     uninit |-> 0, nosemi |-> 0, marker |-> 0, classStart |-> 0,
     classEnd |-> 0, len |-> 0, rank |-> 0]

\* What the string tests and regular expressions of the source find in a line:
\*   opens, closes  occurrences of "{" and of "}" (str.count)
\*   tries          "try" followed by "{"
\*   catches        "catch" followed by "("
\*   methods        a name, a parenthesised list and "{" (the signature check)
\*   uninit         a primitive type, a name and ";" (the uninitialised check)
\*   nosemi         1 if the line counts as a statement missing its semicolon
\*   marker         1 if "class", "package" or "namespace" and a blank occur
\*   classStart     class, interface or enum headers in the line
\*   classEnd       1 if a "}" ends the line (a trailing comment allowed)
\*   len            len(txt)
\*   rank           position of txt in Python's string order
LineInfo(t) ==
    CASE t = "" -> Plain
      [] t = "// Additional Code" -> [Plain EXCEPT !.len = 18, !.rank = 20]
      [] t = "// Error handling" -> [Plain EXCEPT !.len = 17, !.rank = 30]
      [] t = "// Error: Invalid response format received from server" ->
            [Plain EXCEPT !.len = 54, !.rank = 40]
      [] t = "// Fields" -> [Plain EXCEPT !.len = 9, !.rank = 50]
      [] t = "// Utility Methods" -> [Plain EXCEPT !.len = 18, !.rank = 65]
      [] t = "// No code was generated during the conversion process" ->
            [Plain EXCEPT !.len = 54, !.rank = 60]
      [] t = "Console.WriteLine(\"Error caught: \" + e.Message);" ->
            [Plain EXCEPT !.len = 48, !.rank = 70]
      [] t = "Console.WriteLine(\"Error caught: \" + {.Message);" ->
            [Plain EXCEPT !.opens = 1, !.len = 48, !.rank = 75]
      [] t = "Here is the code" ->
            [Plain EXCEPT !.nosemi = 1, !.len = 16, !.rank = 80]
      [] t = "System.err.println(\"Error caught: \" + e.getMessage());" ->
            [Plain EXCEPT !.len = 54, !.rank = 90]
      [] t = "System.err.println(\"Error caught: \" + {.getMessage());" ->
            [Plain EXCEPT !.opens = 1, !.len = 54, !.rank = 95]
      [] t = "catch (e) {" ->
            [Plain EXCEPT !.opens = 1, !.catches = 1, !.methods = 1,
                          !.len = 11, !.rank = 100]
      [] t = "catch (e) {}" ->
            [Plain EXCEPT !.opens = 1, !.closes = 1, !.catches = 1,
                          !.methods = 1, !.classEnd = 1, !.len = 12, !.rank = 110]
      [] t = "catch ({) {" ->
            [Plain EXCEPT !.opens = 2, !.catches = 1, !.methods = 1,
                          !.len = 11, !.rank = 112]
      [] t = "catch ({) {}" ->
            [Plain EXCEPT !.opens = 2, !.closes = 1, !.catches = 1,
                          !.methods = 1, !.classEnd = 1, !.len = 12, !.rank = 114]
      [] t = "import a;" -> [Plain EXCEPT !.len = 9, !.rank = 120]
      [] t = "int x;" -> [Plain EXCEPT !.uninit = 1, !.len = 6, !.rank = 130]
      [] t = "package p;" -> [Plain EXCEPT !.marker = 1, !.len = 10, !.rank = 140]
      [] t = "public class A {" ->
            [Plain EXCEPT !.opens = 1, !.marker = 1, !.classStart = 1,
                          !.len = 16, !.rank = 150]
      [] t = "public class B {" ->
            [Plain EXCEPT !.opens = 1, !.marker = 1, !.classStart = 1,
                          !.len = 16, !.rank = 160]
      [] t = "public void f() {" ->
            [Plain EXCEPT !.opens = 1, !.methods = 1, !.len = 17, !.rank = 165]
      [] t = "try {" ->
            [Plain EXCEPT !.opens = 1, !.tries = 1, !.len = 5, !.rank = 170]
      [] t = "void f() {" ->
            [Plain EXCEPT !.opens = 1, !.methods = 1, !.len = 10, !.rank = 175]
      [] t = "void g() {" ->
            [Plain EXCEPT !.opens = 1, !.methods = 1, !.len = 10, !.rank = 177]
      [] t = "}" -> [Plain EXCEPT !.closes = 1, !.classEnd = 1, !.len = 1, !.rank = 180]
      [] t = "}}" -> [Plain EXCEPT !.closes = 2, !.classEnd = 1, !.len = 2, !.rank = 190]
      [] t = "}}}" -> [Plain EXCEPT !.closes = 3, !.classEnd = 1, !.len = 3, !.rank = 200]
      [] t = "}}}}" -> [Plain EXCEPT !.closes = 4, !.classEnd = 1, !.len = 4, !.rank = 210]
      [] t = "}}}}}" -> [Plain EXCEPT !.closes = 5, !.classEnd = 1, !.len = 5, !.rank = 220]
      [] t = "}}}}}}" -> [Plain EXCEPT !.closes = 6, !.classEnd = 1, !.len = 6, !.rank = 230]
      [] t = "}}}}}}}" -> [Plain EXCEPT !.closes = 7, !.classEnd = 1, !.len = 7, !.rank = 240]
      [] t = "}}}}}}}}" -> [Plain EXCEPT !.closes = 8, !.classEnd = 1, !.len = 8, !.rank = 250]
      [] OTHER -> Plain    \* a line of plain words: comment, divider, message

\* stripped.endswith('{') and stripped.startswith('}')
EndsOpen(l) ==
    l.txt \in {"public class A {", "public class B {", "catch (e) {", "catch ({) {",
               "try {", "void f() {", "public void f() {", "void g() {"}
StartsClose(l) == LineInfo(l.txt).closes > 0 /\ LineInfo(l.txt).opens = 0

\* what precedes and what follows the first "}" of a line that holds one
BeforeClose(t) ==
    CASE t = "catch (e) {}" -> "catch (e) {"
      [] t = "catch ({) {}" -> "catch ({) {"
      [] OTHER -> ""

AfterClose(t) ==
    IF LineInfo(t).opens = 0 /\ LineInfo(t).closes > 1
    THEN CloseLine(LineInfo(t).closes - 1)
    ELSE ""

RECURSIVE Count(_, _)
Count(code, attr) ==
    IF code = <<>> THEN 0
    ELSE LineInfo(Head(code).txt)[attr] + Count(Tail(code), attr)

RECURSIVE DropBlankHead(_)
DropBlankHead(code) ==
    IF code # <<>> /\ IsBlank(Head(code)) THEN DropBlankHead(Tail(code)) ELSE code

RECURSIVE DropBlankTail(_)
DropBlankTail(code) ==
    IF code # <<>> /\ IsBlank(code[Len(code)])
    THEN DropBlankTail(SubSeq(code, 1, Len(code) - 1))
    ELSE code

\* str.strip()
StripText(code) ==
    LET core == DropBlankTail(DropBlankHead(code))
    IN IF core = <<>> THEN EmptyText
       ELSE <<Ln(Head(core).txt)>> \o Tail(core)

\* len(text)
RECURSIVE TextLen(_)
TextLen(code) ==
    IF code = <<>> THEN -1
    ELSE Head(code).ind + LineInfo(Head(code).txt).len + 1 + TextLen(Tail(code))

\* "\n".join(parts) of texts: the lines of the parts, in order
RECURSIVE JoinLines(_)
JoinLines(parts) ==
    IF parts = <<>> THEN <<>> ELSE Head(parts) \o JoinLines(Tail(parts))

Lns(strs) == [i \in DOMAIN strs |-> Ln(strs[i])]
Txts(lines) == [i \in DOMAIN lines |-> lines[i].txt]

----------------------------------------------------------------------------
(* Validation: _validate_code, _quick_validate, _validate_merged_code *)

\* index of the line holding the "}" that closes an empty catch block opened
\* on line j (the "catch (..) {", blanks only, "}" of the source's pattern),
\* or 0 if line j opens none
RECURSIVE NextNonBlank(_, _)
NextNonBlank(code, k) ==
    IF k > Len(code) THEN 0
    ELSE IF IsBlank(code[k]) THEN NextNonBlank(code, k + 1) ELSE k

EmptyCatchAt(code, j) ==
    IF code[j].txt \in {"catch (e) {}", "catch ({) {}"} THEN j
    ELSE IF code[j].txt \in {"catch (e) {", "catch ({) {"}
         THEN LET k == NextNonBlank(code, j + 1)
              IN IF k > 0 /\ StartsClose(code[k]) THEN k ELSE 0
         ELSE 0

EmptyCatches(code) == Cardinality({j \in DOMAIN code : EmptyCatchAt(code, j) > 0})

BraceIssue(code, where) ==
    The({ IF o # c
          THEN <<"Mismatched braces" \o where \o ": " \o ToString(o)
                   \o " opening vs " \o ToString(c) \o " closing">>
          ELSE <<>> :
          o \in {Count(code, "opens")}, c \in {Count(code, "closes")} })

TryIssue(code, where) ==
    The({ IF t > c
          THEN <<"Incomplete exception handling" \o where \o ": " \o ToString(t)
                   \o " try blocks but only " \o ToString(c) \o " catch blocks">>
          ELSE <<>> :
          t \in {Count(code, "tries")}, c \in {Count(code, "catches")} })

CatchIssue(code, where) ==
    The({ IF e > 0
          THEN <<"Found " \o ToString(e) \o " empty catch blocks" \o where>>
          ELSE <<>> :
          e \in {EmptyCatches(code)} })

SemicolonIssue(code) ==
    The({ IF n > 0
          THEN <<"Potentially missing semicolons in " \o ToString(n) \o " statements">>
          ELSE <<>> :
          n \in {Count(code, "nosemi")} })

MethodIssue(code) ==
    The({ IF n > 0
          THEN <<"Found " \o ToString(n)
                   \o " methods with potentially missing return types or access modifiers">>
          ELSE <<>> :
          n \in {Count(code, "methods")} })

UninitIssue(code, lang) ==
    The({ IF lang = "Java" /\ n > 0
          THEN <<"Found " \o ToString(n)
                   \o " potentially uninitialized primitive variables">>
          ELSE <<>> :
          n \in {Count(code, "uninit")} })

\* the findings of _validate_code on a code string
CodeFindings(code, lang) ==
    BraceIssue(code, "") \o TryIssue(code, "") \o CatchIssue(code, "")
    \o (IF IsOOP(lang)
        THEN SemicolonIssue(code) \o MethodIssue(code) \o UninitIssue(code, lang)
        ELSE <<>>)

\* _validate_code(conversion_result, target_language) mutates the dict in
\* place; the outcome is the dict afterwards, or the TypeError of
\* existing_issues + issues when potentialIssues is not a list.
\* conversion_result.get raises AttributeError when the parsed document is no dict.
ValidateCode(res, lang) ==
    IF res.kind # "obj" THEN [raised |-> TRUE, res |-> res]
    ELSE IF res.convertedCode.t # "str" THEN [raised |-> FALSE, res |-> res]
    ELSE The({ IF issues = <<>> THEN [raised |-> FALSE, res |-> res]
               ELSE IF existing.t # "list" THEN [raised |-> TRUE, res |-> res]
               ELSE [raised |-> FALSE,
                     res |-> [res EXCEPT !.potentialIssues =
                                 List(existing.v \o Lns(issues))]] :
               issues \in {CodeFindings(res.convertedCode.v, lang)},
               existing \in {Get(res.potentialIssues, List(<<>>))} })

QuickValidate(code, lang) == BraceIssue(code, "") \o CatchIssue(code, "")

ClassIssue(code, lang) ==
    The({ IF lang = "Java" /\ s > e
          THEN <<"Potentially incomplete class definitions: " \o ToString(s)
                   \o " class starts but only " \o ToString(e) \o " endings">>
          ELSE <<>> :
          s \in {Count(code, "classStart")}, e \in {Count(code, "classEnd")} })

\* _validate_merged_code; merged is the value handed to it
ValidateMergedCode(mergedCode, lang) ==
    IF mergedCode.t = "null" THEN <<"Merged code is None">>
    ELSE IF mergedCode.t # "str" THEN <<"Merged code is not a string">>
    ELSE BraceIssue(mergedCode.v, " in merged code")
         \o TryIssue(mergedCode.v, " in merged code")
         \o CatchIssue(mergedCode.v, " in merged code")
         \o ClassIssue(mergedCode.v, lang)

----------------------------------------------------------------------------
(* Local repair: the part of _polish_code before the external call *)

\* polished += '\n' + '}' * (open_count - close_count)
CompleteBraces(code) ==
    The({ IF o > c THEN code \o <<Ln(CloseLine(o - c))>> ELSE code :
          o \in {Count(code, "opens")}, c \in {Count(code, "closes")} })

\* group 1 of the empty catch pattern, ([^)]*): what stands between the
\* parentheses of the catch on line t; it may hold braces
CatchParam(t) == IF t \in {"catch ({) {", "catch ({) {}"} THEN "{" ELSE "e"

\* the replacement repeats group 1 in the handler line
HandlerLine(lang, param) ==
    IF lang = "Java"
    THEN "System.err.println(\"Error caught: \" + " \o param \o ".getMessage());"
    ELSE "Console.WriteLine(\"Error caught: \" + " \o param \o ".Message);"

\* re.sub of the empty catch pattern, from line j on
RECURSIVE FixCatches(_, _, _)
FixCatches(code, j, lang) ==
    IF j > Len(code) THEN <<>>
    ELSE LET k == EmptyCatchAt(code, j)
         IN IF k > 0
            THEN << Indented(code[j].ind, "catch (" \o CatchParam(code[j].txt) \o ") {"),
                    Indented(4, "// Error handling"),
                    Indented(4, HandlerLine(lang, CatchParam(code[j].txt))),
                    Ln("}" \o AfterClose(code[k].txt)) >>
                 \o FixCatches(code, k + 1, lang)
            ELSE <<code[j]>> \o FixCatches(code, j + 1, lang)

\* the indentation loop: lines[j..] re-flowed at depth level
RECURSIVE Reflow(_, _, _)
Reflow(code, j, level) ==
    IF j > Len(code) THEN <<>>
    ELSE IF EndsOpen(code[j])
         THEN <<Indented(4 * level, code[j].txt)>> \o Reflow(code, j + 1, level + 1)
    ELSE IF StartsClose(code[j])
         THEN LET lower == IF level > 0 THEN level - 1 ELSE 0
              IN <<Indented(4 * lower, code[j].txt)>> \o Reflow(code, j + 1, lower)
    ELSE <<Indented(4 * level, code[j].txt)>> \o Reflow(code, j + 1, level)

\* `polished` at the point of the external call
LocalRepair(code, lang) == Reflow(FixCatches(CompleteBraces(code), 1, lang), 1, 0)

----------------------------------------------------------------------------
(* Structured merge: _merge_oop_code.                                      *)
(* The regular expressions are translated for texts whose lines are        *)
(* package, import, class header, "}", field declaration, blank and prose  *)
(* lines, or the lines of a try and a catch; codes of fragments hold no    *)
(* blank line and no indentation.  None of these lines holds a static      *)
(* final / const declaration, so the constant pattern matches nothing in   *)
(* them; the standalone-method pattern matches a "}" line followed by a    *)
(* catch line ("}" read as the return type, "catch" as the name).          *)

\* package_regex and import_regex are anchored at the start of a line; the
\* C# patterns look for "namespace" and "using"
IsPackageLine(l, lang) == lang = "Java" /\ l.ind = 0 /\ l.txt = "package p;"
IsImportLine(l, lang) == lang = "Java" /\ l.ind = 0 /\ l.txt = "import a;"

\* field_regex: two words and ";" (so it also takes package and import lines)
IsFieldLine(l) == l.txt \in {"package p;", "import a;", "int x;"}

IsClassHead(l) == l.txt \in {"public class A {", "public class B {"}
ClassName(l) == IF l.txt = "public class A {" THEN "A" ELSE "B"
\* full_match[:header_end_idx].strip()
ClassSignature(l) == IF l.txt = "public class A {" THEN "public class A" ELSE "public class B"
HasClose(l) == LineInfo(l.txt).closes > 0

\* first line of the run of blank lines that ends just before line j
RECURSIVE BlankRunStart(_, _)
BlankRunStart(code, j) ==
    IF j > 1 /\ IsBlank(code[j - 1]) THEN BlankRunStart(code, j - 1) ELSE j

\* match.group(0) of field_regex for the field on line j: the pattern's
\* leading \s* takes the white space before the declaration, back to the end
\* of the last line that is not blank
FieldMatch(code, j) ==
    LET b == BlankRunStart(code, j)
    IN (IF b > 1 THEN <<Ln("")>> ELSE <<>>) \o SubSeq(code, b, j)

FieldMatches(code) == {FieldMatch(code, j) : j \in {i \in DOMAIN code : IsFieldLine(code[i])}}

RECURSIVE FirstClose(_, _)
FirstClose(code, k) ==
    IF k > Len(code) THEN 0
    ELSE IF HasClose(code[k]) THEN k ELSE FirstClose(code, k + 1)

\* re.finditer(class_regex): a header, then everything up to the first "}"
RECURSIVE ClassMatches(_, _)
ClassMatches(code, j) ==
    IF j > Len(code) THEN <<>>
    ELSE LET k == IF IsClassHead(code[j]) THEN FirstClose(code, j + 1) ELSE 0
         IN IF k > 0
            THEN << [name |-> ClassName(code[j]),
                     signature |-> ClassSignature(code[j]),
                     content |-> StripText(<<Ln("")>> \o SubSeq(code, j + 1, k - 1)
                                           \o <<Indented(code[k].ind, BeforeClose(code[k].txt))>>)] >>
                 \o ClassMatches(code, k + 1)
            ELSE ClassMatches(code, j + 1)

\* re.sub(pattern, '', text) for the line patterns: the line's text goes, its newline stays
RemoveLines(code, matched) ==
    [i \in DOMAIN code |-> IF i \in matched THEN Ln("") ELSE code[i]]

RECURSIVE RemoveClasses(_, _)
RemoveClasses(code, j) ==
    IF j > Len(code) THEN <<>>
    ELSE LET k == IF IsClassHead(code[j]) THEN FirstClose(code, j + 1) ELSE 0
         IN IF k > 0
            THEN <<Indented(code[j].ind, AfterClose(code[k].txt))>>
                 \o RemoveClasses(code, k + 1)
            ELSE <<code[j]>> \o RemoveClasses(code, j + 1)

IsCatchLine(l) == l.txt \in {"catch (e) {", "catch (e) {}"}

\* what follows the "{" of a catch line
AfterOpen(t) == IF t = "catch (e) {}" THEN "}" ELSE ""

\* a line that is the header of a routine: a return type, a name, "()" and "{"
IsMethodHead(l) == l.txt \in {"void f() {", "public void f() {", "void g() {"}

\* standalone_method_regex tried at the start of line i: white space, then
\* the header of a routine, or a line that is one word, white space and
\* "catch (e) {".  The index of the line that holds the "{" of the match, or
\* 0 when there is no match at this place
StandaloneEnd(code, i) ==
    LET j == NextNonBlank(code, i)
        k == IF j > 0 THEN NextNonBlank(code, j + 1) ELSE 0
    IN IF j > 0 /\ IsMethodHead(code[j]) THEN j
       ELSE IF j > 0 /\ k > 0 /\ StartsClose(code[j]) /\ IsCatchLine(code[k])
       THEN k ELSE 0

\* re.finditer(standalone_method_regex): match.group(0) of each match
RECURSIVE StandaloneMatches(_, _)
StandaloneMatches(code, i) ==
    IF i > Len(code) THEN <<>>
    ELSE LET k == StandaloneEnd(code, i)
         IN IF k > 0
            THEN << [from |-> i,
                     at |-> NextNonBlank(code, i),
                     text |-> IF IsMethodHead(code[k]) THEN SubSeq(code, i, k)
                              ELSE SubSeq(code, i, k - 1)
                                   \o <<Indented(code[k].ind, "catch (e) {")>>] >>
                 \o StandaloneMatches(code, k + 1)
            ELSE StandaloneMatches(code, i + 1)

\* re.search of a class header, text without "}", and the text of the
\* match whose "}" line is line j: some place of the code holds that text
\* with its "}" the first one after a class header
InsideClass(code, j) ==
    \E h \in DOMAIN code : \E p \in (h + 1)..(Len(code) - 1) :
        /\ IsClassHead(code[h])
        /\ FirstClose(code, h + 1) = p
        /\ LineInfo(code[p].txt).classEnd = 1
        /\ LineInfo(code[p].txt).closes = LineInfo(code[j].txt).closes
        /\ IsCatchLine(code[p + 1])
        /\ code[p + 1].ind = code[j + 1].ind

\* the same search for a match that is the header of a routine, lines i to
\* j of the code: some place of the code holds that text after a class
\* header with no "}" between the two
MethodInsideClass(code, i, j) ==
    \E h \in DOMAIN code : \E q \in (h + 1)..Len(code) :
        /\ IsClassHead(code[h])
        /\ \A p \in (h + 1)..q : ~HasClose(code[p])
        /\ q - (j - i) >= h
        /\ \A p \in (q - (j - i) + 1)..(q - 1) : code[p] = code[p - q + j]
        /\ IF i < j THEN code[q] = code[j]
           ELSE \/ code[q].txt = code[j].txt /\ code[q].ind >= code[j].ind
                \/ /\ code[q].txt = "public void f() {"
                   /\ code[j].txt = "void f() {"
                   /\ code[j].ind <= 1

\* utility_methods of one fragment
RECURSIVE OutsideClass(_, _)
OutsideClass(code, found) ==
    IF found = <<>> THEN <<>>
    ELSE (IF (IF IsMethodHead(code[Head(found).at])
              THEN MethodInsideClass(code, Head(found).from, Head(found).at)
              ELSE InsideClass(code, Head(found).at))
          THEN <<>> ELSE <<Head(found).text>>)
         \o OutsideClass(code, Tail(found))

UtilityMethods(code) == OutsideClass(code, StandaloneMatches(code, 1))

\* re.sub(standalone_method_regex, ''): what follows the "{" stays
RECURSIVE RemoveStandalone(_, _)
RemoveStandalone(code, i) ==
    IF i > Len(code) THEN <<>>
    ELSE LET k == StandaloneEnd(code, i)
         IN IF k > 0
            THEN <<Ln(AfterOpen(code[k].txt))>> \o RemoveStandalone(code, k + 1)
            ELSE <<code[i]>> \o RemoveStandalone(code, i + 1)

\* re.sub(field_regex, ''): a match goes with the white space before it
RECURSIVE KeepOutsideFields(_, _)
KeepOutsideFields(code, j) ==
    IF j > Len(code) THEN <<>>
    ELSE IF \E f \in {i \in DOMAIN code : IsFieldLine(code[i])} :
               BlankRunStart(code, f) <= j /\ j <= f
         THEN KeepOutsideFields(code, j + 1)
         ELSE <<code[j]>> \o KeepOutsideFields(code, j + 1)

RemoveFields(code) ==
    LET fields == {i \in DOMAIN code : IsFieldLine(code[i])}
        kept == KeepOutsideFields(code, 1)
        atStart == \E f \in fields : BlankRunStart(code, f) = 1
        rest == IF atStart THEN <<Ln("")>> \o kept ELSE kept
    IN IF rest = <<>> THEN EmptyText ELSE rest

\* code_without_matches.strip() of one fragment
Residual(code, lang) ==
    LET noPackage == RemoveLines(code, {i \in DOMAIN code : IsPackageLine(code[i], lang)})
        noImport == RemoveLines(noPackage, {i \in DOMAIN code : IsImportLine(code[i], lang)})
        noClass == RemoveClasses(noImport, 1)
        noMethod == RemoveStandalone(noClass, 1)
    IN StripText(RemoveFields(noMethod))

\* Python's order of two texts: "\n" sorts before every other character
LineLess(a, b) ==
    IF a.ind # b.ind
    THEN IF a.ind < b.ind THEN IsBlank(a) ELSE ~IsBlank(b)
    ELSE LineInfo(a.txt).rank < LineInfo(b.txt).rank

RECURSIVE TextLess(_, _)
TextLess(a, b) ==
    IF a = <<>> THEN b # <<>>
    ELSE IF b = <<>> THEN FALSE
    ELSE IF Head(a) = Head(b) THEN TextLess(Tail(a), Tail(b))
    ELSE LineLess(Head(a), Head(b))

\* sorted(a set of texts)
RECURSIVE Sorted(_)
Sorted(texts) ==
    IF texts = {} THEN <<>>
    ELSE LET least == CHOOSE t \in texts : \A u \in texts \ {t} : TextLess(t, u)
         IN <<least>> \o Sorted(texts \ {least})

\* package_namespace: the declaration of the first fragment that has one
RECURSIVE FirstPackage(_, _)
FirstPackage(codes, lang) ==
    IF codes = <<>> THEN <<>>
    ELSE LET at == {j \in DOMAIN Head(codes) : IsPackageLine(Head(codes)[j], lang)}
         IN IF at # {}
            THEN <<Ln(Head(codes)[CHOOSE j \in at : \A k \in at : j <= k].txt)>>
            ELSE FirstPackage(Tail(codes), lang)

ImportsOf(code, lang) ==
    {<<Ln(code[j].txt)>> : j \in {i \in DOMAIN code : IsImportLine(code[i], lang)}}

AllImports(codes, lang) == UNION {ImportsOf(codes[i], lang) : i \in DOMAIN codes}

AllFields(codes) == UNION {FieldMatches(codes[i]) : i \in DOMAIN codes}

\* classes[class_name]: stored on first sight, content appended afterwards
RECURSIVE AddClasses(_, _)
AddClasses(classes, found) ==
    IF found = <<>> THEN classes
    ELSE LET c == Head(found)
             at == {i \in DOMAIN classes : classes[i].name = c.name}
         IN IF at = {}
            THEN AddClasses(Append(classes, c), Tail(found))
            ELSE LET i == CHOOSE x \in at : TRUE
                 IN AddClasses([classes EXCEPT ![i].content =
                                   @ \o <<Ln("")>> \o c.content],
                               Tail(found))

RECURSIVE AllClasses(_, _)
AllClasses(classes, codes) ==
    IF codes = <<>> THEN classes
    ELSE AllClasses(AddClasses(classes, ClassMatches(Head(codes), 1)), Tail(codes))

RECURSIVE AllUtilityMethods(_)
AllUtilityMethods(codes) ==
    IF codes = <<>> THEN <<>>
    ELSE UtilityMethods(Head(codes)) \o AllUtilityMethods(Tail(codes))

RECURSIVE OtherCode(_, _)
OtherCode(codes, lang) ==
    IF codes = <<>> THEN <<>>
    ELSE LET rest == Residual(Head(codes), lang)
         IN (IF rest # EmptyText /\ TextLen(rest) > 10 THEN <<rest>> ELSE <<>>)
            \o OtherCode(Tail(codes), lang)

RECURSIVE ClassBlocks(_)
ClassBlocks(classes) ==
    IF classes = <<>> THEN <<>>
    ELSE <<Ln(Head(classes).signature \o " {")>>
         \o (IF Head(classes).content # EmptyText THEN Head(classes).content ELSE <<>>)
         \o <<Ln("}"), Ln("")>>
         \o ClassBlocks(Tail(classes))

\* _merge_oop_code on the convertedCode strings it does not skip
AssembleOop(codes, lang) ==
    LET package == FirstPackage(codes, lang)
        imports == AllImports(codes, lang)
        fields == AllFields(codes)
        classes == AllClasses(<<>>, codes)
        methods == AllUtilityMethods(codes)
        other == OtherCode(codes, lang)
        text ==
            (IF package # <<>> THEN package \o <<Ln("")>> ELSE <<>>)
            \o (IF imports # {} THEN JoinLines(Sorted(imports)) \o <<Ln("")>> ELSE <<>>)
            \o (IF fields # {}
                THEN <<Ln("// Fields")>> \o JoinLines(Sorted(fields)) \o <<Ln("")>>
                ELSE <<>>)
            \o ClassBlocks(classes)
            \o (IF methods # <<>>
                THEN <<Ln("// Utility Methods")>> \o JoinLines(methods) \o <<Ln("")>>
                ELSE <<>>)
            \o (IF other # <<>>
                THEN <<Ln("// Additional Code")>> \o JoinLines(other) \o <<Ln("")>>
                ELSE <<>>)
    IN IF text = <<>>
       THEN <<Ln("// No code was generated during the conversion process")>>
       ELSE text

\* for result in results: code = result.get("convertedCode", ""); if not
\* code: continue.  result.get raises on a result that is no dict, and the
\* first re.search raises TypeError on a code that is truthy and no string.
OopRaises(res) ==
    \E i \in DOMAIN res :
        \/ res[i].kind # "obj"
        \/ Truthy(res[i].convertedCode) /\ res[i].convertedCode.t # "str"

RECURSIVE MergedCodes(_)
MergedCodes(res) ==
    IF res = <<>> THEN <<>>
    ELSE (IF Truthy(Head(res).convertedCode) THEN <<Head(res).convertedCode.v>> ELSE <<>>)
         \o MergedCodes(Tail(res))

----------------------------------------------------------------------------
(* _fallback_merge *)

\* result.get("convertedCode", "").strip() raises on None and on a value
\* that is no string
FallbackRaises(res) ==
    \E i \in DOMAIN res :
        \/ res[i].kind # "obj"
        \/ Get(res[i].convertedCode, Str(EmptyText)).t # "str"

Divider(k) == Ln("// ----- Chunk " \o ToString(k) \o " -----")

\* the loop of _fallback_merge from result i on, merged_code being `acc`
RECURSIVE FallbackFrom(_, _, _)
FallbackFrom(res, i, acc) ==
    IF i > Len(res) THEN acc
    ELSE LET code == StripText(Get(res[i].convertedCode, Str(EmptyText)).v)
         IN IF code = EmptyText THEN FallbackFrom(res, i + 1, acc)
            ELSE IF acc = EmptyText THEN FallbackFrom(res, i + 1, code)
            ELSE FallbackFrom(res, i + 1,
                              acc \o <<Ln(""), Divider(i), Ln("")>> \o code)

FallbackMerge(res) ==
    IF FallbackRaises(res) THEN [raised |-> TRUE, code |-> EmptyText]
    ELSE [raised |-> FALSE, code |-> FallbackFrom(res, 1, EmptyText)]

\* _merge_oop_code(results, target_language, structure_info)
MergeOopCode(res, lang) ==
    IF OopRaises(res) THEN [raised |-> TRUE, code |-> EmptyText]
    ELSE [raised |-> FALSE, code |-> AssembleOop(MergedCodes(res), lang)]

----------------------------------------------------------------------------
(* Engine responses.  A call of client.chat.completions.create raises, or  *)
(* returns a message whose content is None or a text.  The text of a       *)
(* transform response is a sequence of segments, each on a line of its     *)
(* own:                                                                    *)
(*   "prose"  words without braces, quotes or fences                       *)
(*   "fence"  a ``` marker (bare or tagged json)                           *)
(*   "json"   a complete JSON document written on one line, doc its value  *)
(*   "trunc"  a JSON object cut off after its last written member and      *)
(*            before its closing brace, doc holding the members written    *)
(*   "deep"   a JSON object holding an array nested deeper than the        *)
(*            interpreter's recursion limit                                *)

Seg(kind, doc) == [seg |-> kind, doc |-> doc]
Prose == Seg("prose", NonDict("null"))
Fence == Seg("fence", NonDict("null"))
Deep == Seg("deep", NonDict("null"))
Json(doc) == Seg("json", doc)
Trunc(doc) == Seg("trunc", doc)

Raise == [kind |-> "raise", text |-> <<>>]
NoContent == [kind |-> "none", text |-> <<>>]
Content(text) == [kind |-> "text", text |-> text]
NotCalled == [kind |-> "notcalled", text |-> <<>>]

CodeBraces(val, attr) == IF val.t = "str" THEN Count(val.v, attr) ELSE 0

\* str.count of "{" and of "}" in a segment: the braces of the object and
\* those of the code it carries
SegOpens(sg) ==
    IF sg.seg \in {"json", "trunc"} /\ sg.doc.kind = "obj"
    THEN 1 + CodeBraces(sg.doc.convertedCode, "opens")
    ELSE IF sg.seg = "deep" THEN 1
    ELSE 0

SegCloses(sg) ==
    IF sg.seg = "json" /\ sg.doc.kind = "obj"
    THEN 1 + CodeBraces(sg.doc.convertedCode, "closes")
    ELSE IF sg.seg = "trunc" THEN CodeBraces(sg.doc.convertedCode, "closes")
    ELSE IF sg.seg = "deep" THEN 1
    ELSE 0

\* json.loads(text).  "ok": the text is one JSON document; "recursion": the
\* decoder exceeds the recursion limit inside the first value
\* (RecursionError); "decode": json.JSONDecodeError
JsonLoads(text) ==
    IF text # <<>> /\ text[1].seg = "deep"
    THEN [out |-> "recursion", doc |-> NonDict("null")]
    ELSE IF Len(text) = 1 /\ text[1].seg = "json"
    THEN [out |-> "ok", doc |-> text[1].doc]
    ELSE [out |-> "decode", doc |-> NonDict("null")]

\* re.search of "{", anything, "}" (greedy): the text from its first "{" to
\* its last "}"
BraceSpan(text) ==
    LET os == {i \in DOMAIN text : SegOpens(text[i]) > 0}
        cs == {i \in DOMAIN text : SegCloses(text[i]) > 0}
    IN IF os = {} \/ cs = {} THEN <<>>
       ELSE LET first == CHOOSE i \in os : \A j \in os : i <= j
                last == CHOOSE i \in cs : \A j \in cs : j <= i
            IN IF first > last THEN <<>> ELSE SubSeq(text, first, last)

----------------------------------------------------------------------------
(* Transform Invoker: _convert_single_chunk *)

ApiErrorResult ==
    Dict(Str(EmptyText), Str(<<Ln("Error calling model API: error")>>),
         List(<<Ln("Failed to get response from model")>>), Bool(FALSE))

InvalidFormatResult ==
    Dict(Str(<<Ln("// Error: Invalid response format received from server")>>),
         Str(<<Ln("Error processing response: Expecting value")>>),
         List(<<Ln("Failed to process model response"),
                Ln("Response was not valid JSON")>>),
         Bool(FALSE))

\* json.loads succeeded: validate for Java and C#, return the parsed value
Validated(doc, lang) ==
    IF IsOOP(lang) THEN ValidateCode(doc, lang)
    ELSE [raised |-> FALSE, res |-> doc]

\* the except json.JSONDecodeError handler: the regex extraction in its own
\* try / except Exception, then the fallback response
SalvageByRegex(text, lang) ==
    The({ IF span.out # "ok" THEN InvalidFormatResult
          ELSE The({ IF v.raised THEN InvalidFormatResult ELSE v.res :
                     v \in {Validated(span.doc, lang)} }) :
          span \in {JsonLoads(BraceSpan(text))} })

\* the body of the outer try; exc: an exception reaches the outer handler
\* (the call raised, None has no strip, RecursionError of json.loads, or
\* _validate_code raised after the direct parse)
TryConvert(resp, lang) ==
    IF resp.kind # "text" THEN [exc |-> TRUE, res |-> NonDict("null")]
    ELSE The({ CASE direct.out = "ok" ->
                      The({ [exc |-> v.raised, res |-> v.res] :
                            v \in {Validated(direct.doc, lang)} })
                 [] direct.out = "recursion" -> [exc |-> TRUE, res |-> NonDict("null")]
                 [] OTHER -> [exc |-> FALSE, res |-> SalvageByRegex(resp.text, lang)] :
               direct \in {JsonLoads(resp.text)} })

\* _convert_single_chunk: except Exception returns the API error result
ConvertSingleChunk(resp, lang) ==
    The({ IF attempt.exc THEN [raised |-> FALSE, res |-> ApiErrorResult]
          ELSE [raised |-> FALSE, res |-> attempt.res] :
          attempt \in {TryConvert(resp, lang)} })

----------------------------------------------------------------------------
(* Structure Planner: _get_code_structure.                                 *)
(* The text of a planning response is a sequence of words separated by     *)
(* single blanks.  WordInfo records what the patterns find in a word.      *)

NoWord ==
    [classKw |-> FALSE, interfaceKw |-> FALSE, packageKw |-> FALSE,
     namespaceKw |-> FALSE, name |-> "", dotted |-> "", db |-> FALSE,
     patterns |-> {}]

\*   classKw, interfaceKw   the word ends with "class" / "interface"
\*   packageKw, namespaceKw the word ends with it, letter case ignored
\*   name      the longest prefix of letters, digits and "_"
\*   dotted    the longest prefix of letters, digits, "_" and "."
\*   db        a db_keyword occurs in the word
\*   patterns  the pattern_keywords entries one of whose keywords occurs in it
WordInfo(w) ==
    CASE w = "the" -> [NoWord EXCEPT !.name = "the", !.dotted = "the"]
      [] w = "class" ->
            [NoWord EXCEPT !.classKw = TRUE, !.name = "class", !.dotted = "class"]
      [] w = "interface" ->
            [NoWord EXCEPT !.interfaceKw = TRUE, !.name = "interface",
                           !.dotted = "interface"]
      [] w = "package" ->
            [NoWord EXCEPT !.packageKw = TRUE, !.name = "package", !.dotted = "package"]
      [] w = "Package" ->
            [NoWord EXCEPT !.packageKw = TRUE, !.name = "Package", !.dotted = "Package"]
      [] w = "namespace" ->
            [NoWord EXCEPT !.namespaceKw = TRUE, !.name = "namespace",
                           !.dotted = "namespace"]
      [] w = "Foo" -> [NoWord EXCEPT !.name = "Foo", !.dotted = "Foo"]
      [] w = "com.acme" -> [NoWord EXCEPT !.name = "com", !.dotted = "com.acme"]
      [] w = "JDBC" -> [NoWord EXCEPT !.name = "JDBC", !.dotted = "JDBC", !.db = TRUE]
      [] w = "Repository" ->
            [NoWord EXCEPT !.name = "Repository", !.dotted = "Repository",
                           !.db = TRUE, !.patterns = {"Repository"}]
      [] w = "custom" -> [NoWord EXCEPT !.name = "custom", !.dotted = "custom"]
      [] w = "exception" -> [NoWord EXCEPT !.name = "exception", !.dotted = "exception"]
      [] OTHER -> NoWord

\* re.findall(kw, blanks, name): the names captured from word i on; a match
\* consumes the keyword and the word after it
RECURSIVE NamesAfter(_, _, _)
NamesAfter(words, i, kw) ==
    IF i >= Len(words) THEN {}
    ELSE IF WordInfo(words[i])[kw] /\ WordInfo(words[i + 1]).name # ""
    THEN {WordInfo(words[i + 1]).name} \cup NamesAfter(words, i + 2, kw)
    ELSE NamesAfter(words, i + 1, kw)

\* re.search(kw, blanks, dotted name, re.IGNORECASE): group 1 of the first
\* match, <<>> when there is none
FirstDotted(words, kw) ==
    LET hits == {i \in 1..(Len(words) - 1) :
                    WordInfo(words[i])[kw] /\ WordInfo(words[i + 1]).dotted # ""}
    IN IF hits = {} THEN <<>>
       ELSE <<WordInfo(words[(CHOOSE i \in hits : \A j \in hits : i <= j) + 1]).dotted>>

\* "custom exception" in structure_content.lower()
CustomException(words) ==
    \E i \in 1..(Len(words) - 1) : words[i] = "custom" /\ words[i + 1] = "exception"

DefaultStructure ==
    [structure |-> <<"Could", "not", "determine", "code", "structure">>,
     classes |-> {}, package |-> <<>>, interfaces |-> {},
     database_access |-> FALSE, exception_strategy |-> "standard",
     patterns |-> {}]

\* the body of the try of _get_code_structure on the text of the response
StructureInfo(words, lang) ==
    [structure |-> words,
     classes |-> NamesAfter(words, 1, "classKw"),
     package |-> IF lang = "Java" THEN FirstDotted(words, "packageKw")
                 ELSE FirstDotted(words, "namespaceKw"),
     interfaces |-> NamesAfter(words, 1, "interfaceKw"),
     database_access |-> \E i \in DOMAIN words : WordInfo(words[i]).db,
     exception_strategy |-> IF CustomException(words) THEN "custom" ELSE "standard",
     patterns |-> UNION {WordInfo(words[i]).patterns : i \in DOMAIN words}]

\* a _get_code_structure without its except clause
GetCodeStructureUncaught(resp, lang) ==
    IF resp.kind # "text" THEN [raised |-> TRUE, info |-> DefaultStructure]
    ELSE [raised |-> FALSE, info |-> StructureInfo(resp.text, lang)]

\* _get_code_structure: the call raising, or a content of None (no strip),
\* is caught and the default blueprint returned
GetCodeStructure(resp, lang) ==
    IF resp.kind # "text" THEN [raised |-> FALSE, info |-> DefaultStructure]
    ELSE [raised |-> FALSE, info |-> StructureInfo(resp.text, lang)]

----------------------------------------------------------------------------
(* Polish, second half: the external call and the acceptance gate.         *)
(* A polish response is [kind, fenced, body]: fenced says the text holds a *)
(* block opened by ``` or ```<target language in lower case> and closed by *)
(* ```, body being the lines of the block, or of the whole text when       *)
(* there is no such block.                                                 *)

PolishText(fenced, body) == [kind |-> "text", fenced |-> fenced, body |-> body]
PolishRaise == [kind |-> "raise", fenced |-> FALSE, body |-> EmptyText]
PolishNoContent == [kind |-> "none", fenced |-> FALSE, body |-> EmptyText]

\* re.search of class, package or namespace followed by white space
HasMarker(code) == Count(code, "marker") > 0

\* the gate with the threshold of "made things worse" at two issues
PolishGateAtTwo(resp, polished, lang) ==
    IF resp.kind # "text"
    THEN [code |-> polished, accepted |-> FALSE, engine |-> EmptyText]
    ELSE LET polished_code == StripText(resp.body)
         IN IF ~resp.fenced /\ ~HasMarker(resp.body)
            THEN [code |-> polished, accepted |-> FALSE, engine |-> polished_code]
            ELSE IF Len(QuickValidate(polished_code, lang)) >= 2
            THEN [code |-> polished, accepted |-> FALSE, engine |-> polished_code]
            ELSE [code |-> polished_code, accepted |-> TRUE, engine |-> polished_code]

\* what _polish_code does with the response: the code it returns, whether
\* that is the engine's code, and the engine's code as extracted
PolishGate(resp, polished, lang) ==
    IF resp.kind # "text"
    THEN [code |-> polished, accepted |-> FALSE, engine |-> EmptyText]
    ELSE LET polished_code == StripText(resp.body)
         IN IF ~resp.fenced /\ ~HasMarker(resp.body)
            THEN [code |-> polished, accepted |-> FALSE, engine |-> polished_code]
            ELSE IF Len(QuickValidate(polished_code, lang)) >= 3
            THEN [code |-> polished, accepted |-> FALSE, engine |-> polished_code]
            ELSE [code |-> polished_code, accepted |-> TRUE, engine |-> polished_code]

----------------------------------------------------------------------------
(* _merge_conversion_results: the persistence flag, notes and issues *)

\* any(result.get("databaseUsed", False) for result in results), from
\* result i on: raised is the AttributeError of a result that is no dict
RECURSIVE AnyDatabaseUsed(_, _)
AnyDatabaseUsed(res, i) ==
    IF i > Len(res) THEN [raised |-> FALSE, flag |-> FALSE]
    ELSE IF res[i].kind # "obj" THEN [raised |-> TRUE, flag |-> FALSE]
    ELSE IF Truthy(Get(res[i].databaseUsed, Bool(FALSE)))
    THEN [raised |-> FALSE, flag |-> TRUE]
    ELSE AnyDatabaseUsed(res, i + 1)

ChunkLabel(i) == "Chunk " \o ToString(i) \o ": "

\* f"Chunk {i}: {value}" for a value that is a string or a number, by lines
Labelled(i, lines) ==
    <<Ln(ChunkLabel(i) \o Head(lines).txt)>> \o Tail(lines)

HeaderNote(n) ==
    Ln("The original code was processed in " \o ToString(n)
       \o " chunks due to its size and merged into a single codebase.")

\* all_notes of results i.., each entry preceded by the blank line of the
\* "\n\n" join
RECURSIVE ChunkNotes(_, _)
ChunkNotes(res, i) ==
    IF i > Len(res) THEN <<>>
    ELSE LET notes == Get(res[i].conversionNotes, Str(EmptyText))
         IN (IF Truthy(notes) THEN <<Ln("")>> \o Labelled(i, notes.v) ELSE <<>>)
            \o ChunkNotes(res, i + 1)

MergedNotes(res) == <<HeaderNote(Len(res))>> \o ChunkNotes(res, 1)

\* the characters of a string of one line
Chars(s) == [k \in 1..Len(s) |-> Ln(SubSeq(s, k, k))]

\* the items `for issue in issues` yields: the items of a list, the
\* characters of a string (here: of a string of at most one line)
IssueItems(issues) ==
    IF issues.t # "str" THEN issues.v
    ELSE IF issues.v = EmptyText THEN <<>>
    ELSE Chars(issues.v[1].txt)

\* iterating a truthy potentialIssues that is a number or a boolean raises
IssuesRaise(res) ==
    \E i \in DOMAIN res :
        \/ res[i].kind # "obj"
        \/ LET issues == Get(res[i].potentialIssues, List(<<>>))
           IN Truthy(issues) /\ issues.t \notin {"list", "str"}

RECURSIVE ChunkIssues(_, _)
ChunkIssues(res, i) ==
    IF i > Len(res) THEN <<>>
    ELSE LET issues == Get(res[i].potentialIssues, List(<<>>))
             items == IF Truthy(issues) THEN IssueItems(issues) ELSE <<>>
         IN [k \in DOMAIN items |-> Ln(ChunkLabel(i) \o items[k].txt)]
            \o ChunkIssues(res, i + 1)

\* a result for no chunks that says nothing in its issues
EmptyResultSilent ==
    Dict(Str(EmptyText), Str(<<Ln("Error: No code provided for conversion")>>),
         List(<<>>), Bool(FALSE))

EmptyResult ==
    Dict(Str(EmptyText), Str(<<Ln("Error: No code provided for conversion")>>),
         List(<<Ln("No source code was provided")>>), Bool(FALSE))

----------------------------------------------------------------------------
(* Salvage parser: extract_json_from_response of app.py.                   *)
(* Its result is [raised, stage, res]; of a returned dict only the four    *)
(* keys of a conversion result are represented (not raw_text, error).      *)

Returned(stage, res) == [raised |-> FALSE, stage |-> stage, res |-> res]
Propagates == [raised |-> TRUE, stage |-> "raised", res |-> NonDict("null")]

\* the blocks re.findall finds between ``` pairs, from segment i on
RECURSIVE NextFence(_, _)
NextFence(text, i) ==
    IF i > Len(text) THEN 0
    ELSE IF text[i].seg = "fence" THEN i ELSE NextFence(text, i + 1)

RECURSIVE FencedBlocks(_, _)
FencedBlocks(text, i) ==
    LET a == NextFence(text, i)
        b == IF a = 0 THEN 0 ELSE NextFence(text, a + 1)
    IN IF b = 0 THEN <<>>
       ELSE <<SubSeq(text, a + 1, b - 1)>> \o FencedBlocks(text, b + 1)

\* for match in matches: try json.loads(match), continue on JSONDecodeError.
\* "none": no block parsed
RECURSIVE TryBlocks(_)
TryBlocks(blocks) ==
    IF blocks = <<>> THEN [out |-> "none", doc |-> NonDict("null")]
    ELSE LET parsed == JsonLoads(Head(blocks))
         IN IF parsed.out = "decode" THEN TryBlocks(Tail(blocks)) ELSE parsed

\* text.count("{") and text.count("}")
RECURSIVE TextOpens(_)
TextOpens(text) ==
    IF text = <<>> THEN 0 ELSE SegOpens(Head(text)) + TextOpens(Tail(text))

RECURSIVE TextCloses(_)
TextCloses(text) ==
    IF text = <<>> THEN 0 ELSE SegCloses(Head(text)) + TextCloses(Tail(text))

\* '"key"' in text: an object of the text has written the key
HasKey(text, key) ==
    \E i \in DOMAIN text :
        text[i].seg \in {"json", "trunc"} /\ text[i].doc.kind = "obj"
        /\ text[i].doc[key].t # "absent"

\* the repair of a truncated object: the fields are read from the line of
\* the first "{" of the text
TruncatedRepair(text) ==
    LET first == CHOOSE i \in DOMAIN text :
                    SegOpens(text[i]) > 0 /\ \A j \in 1..(i - 1) : SegOpens(text[j]) = 0
        doc == text[first].doc
        code == IF doc.convertedCode.t = "str" THEN doc.convertedCode.v ELSE EmptyText
        notes == IF doc.conversionNotes.t = "str" THEN doc.conversionNotes.v
                 ELSE <<Ln("Truncated during processing")>>
    IN Dict(Str(code), Str(notes),
            List(<<Ln("Response was truncated - some content may be missing")>>),
            Absent)

\* the braces of the text in order: b the brace, seg the segment it is in,
\* role "start" / "end" for the braces of an object, "code" for those of
\* its code (a line has its "{" before its "}")
Repeat(n, e) == [k \in 1..n |-> e]

RECURSIVE CodeBraceEvents(_, _)
CodeBraceEvents(code, i) ==
    IF code = <<>> THEN <<>>
    ELSE Repeat(LineInfo(Head(code).txt).opens, [b |-> "{", seg |-> i, role |-> "code"])
         \o Repeat(LineInfo(Head(code).txt).closes, [b |-> "}", seg |-> i, role |-> "code"])
         \o CodeBraceEvents(Tail(code), i)

SegBraceEvents(sg, i) ==
    LET inner == IF sg.doc.convertedCode.t = "str"
                 THEN CodeBraceEvents(sg.doc.convertedCode.v, i) ELSE <<>>
        start == <<[b |-> "{", seg |-> i, role |-> "start"]>>
        end == <<[b |-> "}", seg |-> i, role |-> "end"]>>
    IN CASE sg.seg = "json" /\ sg.doc.kind = "obj" -> start \o inner \o end
         [] sg.seg = "trunc" -> start \o inner
         [] sg.seg = "deep" -> start \o end
         [] OTHER -> <<>>

RECURSIVE BraceEvents(_, _)
BraceEvents(text, i) ==
    IF i > Len(text) THEN <<>>
    ELSE SegBraceEvents(text[i], i) \o BraceEvents(text, i + 1)

\* len() of a JSON value as json.dumps writes it (a line break of a string
\* is the two characters of its escape)
RECURSIVE ItemsLen(_)
ItemsLen(items) ==
    IF items = <<>> THEN 0
    ELSE 4 + LineInfo(Head(items).txt).len + ItemsLen(Tail(items))

ValueLen(val) ==
    CASE val.t = "str" -> 2 + TextLen(val.v) + (Len(val.v) - 1)
      [] val.t = "null" -> 4
      [] val.t = "bool" -> IF val.v[1].txt = "true" THEN 4 ELSE 5
      [] val.t = "num" -> 1
      [] OTHER -> IF val.v = <<>> THEN 2 ELSE ItemsLen(val.v)

Keys == <<"convertedCode", "conversionNotes", "potentialIssues", "databaseUsed">>
KeyLen == <<13, 15, 15, 12>>

DocLen(doc) ==
    LET present == {k \in 1..4 : doc[Keys[k]].t # "absent"}
        members == [k \in 1..4 |->
                      IF k \in present THEN KeyLen[k] + 4 + ValueLen(doc[Keys[k]]) + 2
                      ELSE 0]
    IN IF present = {} THEN 2
       ELSE members[1] + members[2] + members[3] + members[4]

\* for potential_json in potential_jsons, from brace k of the events on:
\* the piece from the next "{" to the first "}" after it
RECURSIVE TryPieces(_, _, _)
TryPieces(text, ev, k) ==
    LET opens == {p \in k..Len(ev) : ev[p].b = "{"}
        p == CHOOSE x \in opens : \A y \in opens : x <= y
        closes == {q \in (p + 1)..Len(ev) : ev[q].b = "}"}
        q == CHOOSE x \in closes : \A y \in closes : x <= y
        whole == ev[p].role = "start" /\ ev[q].role = "end" /\ ev[p].seg = ev[q].seg
        sg == text[ev[p].seg]
    IN IF opens = {} THEN [out |-> "none", doc |-> NonDict("null")]
       ELSE IF closes = {} THEN [out |-> "none", doc |-> NonDict("null")]
       ELSE IF whole /\ sg.seg = "deep" THEN [out |-> "recursion", doc |-> NonDict("null")]
       ELSE IF whole /\ sg.seg = "json" /\ DocLen(sg.doc) > 20
       THEN [out |-> "ok", doc |-> sg.doc]
       ELSE TryPieces(text, ev, q + 1)

LastResort ==
    Dict(Str(<<Ln("Extraction failed - see raw response")>>),
         Str(<<Ln("JSON parsing failed. The model response may have been truncated.")>>),
         List(<<Ln("JSON extraction failed")>>), Absent)

ErrorDict == Dict(Absent, Absent, Absent, Absent)

\* the inner try of extract_json_from_response
RepairOrPieces(text) ==
    IF TextOpens(text) > TextCloses(text)
       /\ HasKey(text, "convertedCode") /\ HasKey(text, "conversionNotes")
    THEN Returned("truncated", TruncatedRepair(text))
    ELSE LET piece == TryPieces(text, BraceEvents(text, 1), 1)
         IN CASE piece.out = "ok" -> Returned("braces", piece.doc)
              [] piece.out = "recursion" -> Returned("error", ErrorDict)
              [] OTHER -> Returned("lastresort", LastResort)

ExtractJsonFromResponse(text) ==
    LET direct == JsonLoads(text)
        block == TryBlocks(FencedBlocks(text, 1))
    IN IF direct.out = "ok" THEN Returned("direct", direct.doc)
       ELSE IF direct.out = "recursion" THEN Propagates
       ELSE IF block.out = "ok" THEN Returned("fenced", block.doc)
       ELSE IF block.out = "recursion" THEN Propagates
       ELSE RepairOrPieces(text)

----------------------------------------------------------------------------
(* The inputs of the model: target languages and engine responses *)

MaxWords == 3
MaxSegs == 3
MaxLines == 3

Targets == {"Java", "C#", "Python"}

GoodA ==
    Dict(Str(<<Ln("package p;"), Ln("import a;"), Ln("public class A {"), Ln("}")>>),
         Str(<<Ln("Converted")>>), List(<<>>), Bool(FALSE))

GoodB ==
    Dict(Str(<<Ln("public class B {"), Ln("}")>>), Absent,
         List(<<Ln("Check types")>>), Bool(TRUE))

Broken ==
    Dict(Str(<<Ln("public class A {"), Ln("try {"), Ln("catch (e) {}")>>),
         Str(<<Ln("Converted")>>), Absent, Absent)

CodeNumber == Dict(Num("5"), Absent, Absent, Absent)
CodeNull == Dict(None, Str(<<Ln("Converted")>>), List(<<>>), Bool(FALSE))
IssuesNumber == Dict(Str(<<Ln("public class B {"), Ln("}")>>), Absent, Num("5"), Absent)
EmptyObject == Dict(Absent, Absent, Absent, Absent)
Unbraced == Dict(Str(<<Ln("int x;")>>), Str(<<Ln("Converted")>>), Absent, Absent)
CodeOnly == Dict(Str(<<Ln("int x;")>>), Absent, Absent, Absent)
IssuesString ==
    Dict(Str(<<Ln("public class B {"), Ln("}")>>), Absent, Str(<<Ln("No")>>), Absent)
IssuesNull ==
    Dict(Str(<<Ln("public class A {"), Ln("int x;"), Ln("}")>>),
         Str(<<Ln("Converted")>>), None, Bool(FALSE))

TransformResponses ==
    { Raise, NoContent,
      Content(<<Prose>>),
      Content(<<Trunc(GoodA)>>),
      Content(<<Json(GoodA)>>),
      Content(<<Json(GoodB)>>),
      Content(<<Json(Broken)>>),
      Content(<<Json(CodeNumber)>>),
      Content(<<Json(CodeNull)>>),
      Content(<<Json(IssuesNumber)>>),
      Content(<<Json(IssuesString)>>),
      Content(<<Json(EmptyObject)>>),
      Content(<<Json(NonDict("list"))>>) }

PlanResponses ==
    { Raise, Content(<<>>), Content(<<"class", "Foo", "JDBC">>) }

PolishResponses ==
    { PolishRaise, PolishNoContent,
      PolishText(FALSE, <<Ln("public class A {"), Ln("}")>>),
      PolishText(FALSE, <<Ln("Here is the code")>>),
      PolishText(TRUE, <<Ln("int x;")>>),
      PolishText(TRUE, EmptyText),
      PolishText(TRUE, <<Ln("public class A {"), Ln("catch (e) {}")>>) }

\* the lines of the fragment codes given to the merger
MergeLines == {"public class A {", "}", "catch (e) {}", "int x;", "try {"}

\* the lines of the codes given to _polish_code when it is used alone
RepairLines ==
    {"", "try {", "catch (e) {", "catch (e) {}", "catch ({) {}", "}", "int x;"}

Words ==
    {"the", "class", "interface", "package", "Package", "namespace", "Foo",
     "com.acme", "JDBC", "Repository", "custom", "exception"}

RECURSIVE SeqsUpTo(_, _)
SeqsUpTo(S, n) ==
    IF n = 0 THEN {<<>>}
    ELSE LET shorter == SeqsUpTo(S, n - 1)
         IN shorter \cup {Append(q, x) : q \in shorter, x \in S}

PlannerResponses ==
    {Raise, NoContent} \cup {Content(w) : w \in SeqsUpTo(Words, MaxWords)}

Segments ==
    { Prose, Fence, Deep, Json(GoodB), Json(Broken), Json(CodeNumber),
      Json(Unbraced), Json(IssuesNull), Json(NonDict("list")), Trunc(GoodA),
      Trunc(Unbraced), Trunc(CodeOnly) }

\* a fenced block holding one object, with one more segment before or after it
FencedObject == <<Fence, Json(GoodB), Fence>>
AroundFence ==
    {<<sg>> \o FencedObject : sg \in Segments}
    \cup {FencedObject \o <<sg>> : sg \in Segments}

ParserResponses ==
    {Raise, NoContent}
    \cup {Content(t) : t \in SeqsUpTo(Segments, MaxSegs) \cup AroundFence}

----------------------------------------------------------------------------
(* The job: convert_code_chunks and _merge_conversion_results *)

Unplanned == [DefaultStructure EXCEPT !.structure = <<>>]
NotPolished ==
    [call |-> "notcalled", fenced |-> FALSE, accepted |-> FALSE, engine |-> EmptyText]

Step(name, chunk) == [step |-> name, chunk |-> chunk]

ReturnedResult(res) == [status |-> "returned", value |-> res]
RaisedError == [status |-> "raised", value |-> NonDict("null")]
Running == [status |-> "running", value |-> NonDict("null")]

\* no other job
NoPeer == [id |-> 0]
NoRequest == [stage |-> "none"]

Init ==
    /\ pc = "start"
    /\ target \in Targets
    /\ nChunks \in 0..MaxChunks
    /\ idx = 0
    /\ planReply = NotCalled
    /\ structure = Unplanned
    /\ replies = <<>>
    /\ results = <<>>
    /\ mergePath = "none"
    /\ merged = EmptyText
    /\ prepolish = EmptyText
    /\ allIssues = <<>>
    /\ polishOut = NotPolished
    /\ trace = <<>>
    /\ output = Running
    /\ peer = NoPeer
    /\ request = NoRequest

\* if not chunks: return the "no code provided" result
ConvertEmpty ==
    /\ pc = "start"
    /\ nChunks = 0
    /\ output' = ReturnedResult(EmptyResult)
    /\ pc' = "done"
    /\ UNCHANGED <<target, nChunks, idx, planReply, structure, replies, results, mergePath,
                   merged, prepolish, allIssues, polishOut, trace, peer, request>>

\* a job without the single-chunk shortcut of lines 119-124
NoSingleChunk(n) == FALSE

\* if len(chunks) == 1
SingleChunk(n) == n = 1

\* return self._convert_single_chunk(chunks[0], ...)
ConvertSingle(r) ==
    /\ pc = "start"
    /\ SingleChunk(nChunks)
    /\ \E c \in {ConvertSingleChunk(r, target)} :
          output' = IF c.raised THEN RaisedError ELSE ReturnedResult(c.res)
    /\ replies' = <<r>>
    /\ trace' = <<Step("transform", 1)>>
    /\ pc' = "done"
    /\ UNCHANGED <<target, nChunks, idx, planReply, structure, results, mergePath, merged,
                   prepolish, allIssues, polishOut, peer, request>>

\* phase 1: structure_result = self._get_code_structure(...)
Plan(r) ==
    /\ pc = "start"
    /\ nChunks # 0
    /\ ~SingleChunk(nChunks)
    /\ \E g \in {GetCodeStructure(r, target)} :
          /\ planReply' = r
          /\ structure' = g.info
          /\ output' = IF g.raised THEN RaisedError ELSE output
          /\ pc' = IF g.raised THEN "done" ELSE "transform"
    /\ trace' = Append(trace, Step("plan", 0))
    /\ UNCHANGED <<target, nChunks, idx, replies, results, mergePath, merged,
                   prepolish, allIssues, polishOut, peer, request>>

\* phase 2, one turn of the loop: result = self._convert_single_chunk(chunk,
\* ...); conversion_results.append(result)
Transform(r) ==
    /\ pc = "transform"
    /\ idx < nChunks
    /\ \E c \in {ConvertSingleChunk(r, target)} :
          /\ results' = IF c.raised THEN results ELSE Append(results, c.res)
          /\ output' = IF c.raised THEN RaisedError ELSE output
          /\ pc' = IF c.raised THEN "done"
                   ELSE IF idx + 1 = nChunks THEN "merge" ELSE "transform"
    /\ replies' = Append(replies, r)
    /\ trace' = Append(trace, Step("transform", idx + 1))
    /\ idx' = idx + 1
    /\ UNCHANGED <<target, nChunks, planReply, structure, mergePath, merged, prepolish,
                   allIssues, polishOut, peer, request>>

NoResults ==
    Dict(Str(EmptyText), Str(<<Ln("No conversion results to merge")>>),
         List(<<Ln("No conversion was performed")>>), Bool(FALSE))

MergeErrorIssue ==
    Ln("Error during intelligent code merging: error. Used fallback merge method.")

\* the merge of lines 779-788: the structured merge with its fallback for
\* Java and C#, the fallback merge alone for the other targets
MergeCode(res, lang) ==
    The({ IF IsOOP(lang) /\ ~oop.raised
          THEN [raised |-> FALSE, path |-> "structured", code |-> oop.code,
                issues |-> <<>>]
          ELSE The({ IF IsOOP(lang)
                     THEN [raised |-> fallback.raised,
                           path |-> IF fallback.raised THEN "fallback raised"
                                    ELSE "recovered",
                           code |-> fallback.code,
                           issues |-> IF fallback.raised THEN <<>>
                                      ELSE <<MergeErrorIssue>>]
                     ELSE [raised |-> fallback.raised,
                           path |-> IF fallback.raised THEN "simple raised"
                                    ELSE "simple",
                           code |-> fallback.code, issues |-> <<>>] :
                     fallback \in {FallbackMerge(res)} }) :
          oop \in {IF IsOOP(lang) THEN MergeOopCode(res, lang)
                   ELSE [raised |-> FALSE, code |-> EmptyText]} })

\* a _polish_code that returns at once whatever the code
PolishAlwaysSkipped(code) == TRUE

\* if not code or len(code.strip()) == 0: _polish_code returns at once
PolishSkipped(code) == StripText(code) = EmptyText

\* lines 795-818: notes, issues, final validation and the result.
\* ok is FALSE when iterating a fragment's issues raises.
FinalResult(res, code, issues, lang) ==
    [ok |-> ~IssuesRaise(res),
     validated |-> IsOOP(lang),
     value |-> Dict(Str(code), Str(MergedNotes(res)),
                    List(issues \o ChunkIssues(res, 1)
                         \o (IF IsOOP(lang) THEN Lns(ValidateMergedCode(Str(code), lang))
                             ELSE <<>>)),
                    Bool(AnyDatabaseUsed(res, 1).flag))]

\* what the job ends with once merged_code is final
Finish(code, issues, steps) ==
    \E final \in {FinalResult(results, code, issues, target)} :
       /\ output' = IF final.ok THEN ReturnedResult(final.value) ELSE RaisedError
       /\ trace' = trace \o steps
                   \o (IF final.ok /\ final.validated THEN <<Step("validate", 0)>>
                       ELSE <<>>)
       /\ pc' = "done"

\* _merge_conversion_results up to the external call of _polish_code; for
\* a target other than Java and C#, all of it
MergeStep ==
    /\ pc = "merge"
    /\ \E db \in {AnyDatabaseUsed(results, 1)}, m \in {MergeCode(results, target)} :
          IF results = <<>>
          THEN /\ output' = ReturnedResult(NoResults)
               /\ pc' = "done"
               /\ UNCHANGED <<mergePath, merged, prepolish, allIssues, trace>>
          ELSE IF db.raised
          THEN /\ output' = RaisedError
               /\ pc' = "done"
               /\ mergePath' = "flag raised"
               /\ UNCHANGED <<merged, prepolish, allIssues, trace>>
          ELSE IF m.raised
          THEN /\ output' = RaisedError
               /\ pc' = "done"
               /\ mergePath' = m.path
               /\ trace' = Append(trace, Step("merge", 0))
               /\ UNCHANGED <<merged, prepolish, allIssues>>
          ELSE /\ mergePath' = m.path
               /\ merged' = m.code
               /\ allIssues' = m.issues
               /\ IF IsOOP(target) /\ ~PolishSkipped(m.code)
                  THEN /\ prepolish' = LocalRepair(m.code, target)
                       /\ trace' = Append(trace, Step("merge", 0))
                       /\ pc' = "polish"
                       /\ UNCHANGED output
                  ELSE /\ Finish(m.code, m.issues, <<Step("merge", 0)>>)
                       /\ UNCHANGED prepolish
    /\ UNCHANGED <<target, nChunks, idx, planReply, structure, replies, results, polishOut, peer, request>>

\* the external call of _polish_code, its gate, and the rest of
\* _merge_conversion_results
PolishReturn(r) ==
    /\ pc = "polish"
    /\ \E g \in {PolishGate(r, prepolish, target)} :
          /\ polishOut' = [call |-> r.kind, fenced |-> r.fenced,
                           accepted |-> g.accepted, engine |-> g.engine]
          /\ Finish(g.code, allIssues, <<Step("polish", 0)>>)
    /\ UNCHANGED <<target, nChunks, idx, planReply, structure, replies, results, mergePath,
                   merged, prepolish, allIssues, peer, request>>

\* a direct use of extract_json_from_response on the text of a response
Salvage(r) ==
    /\ pc = "start"
    /\ r.kind = "text"
    /\ \E e \in {ExtractJsonFromResponse(r.text)} :
          output' = IF e.raised THEN RaisedError ELSE ReturnedResult(e.res)
    /\ replies' = <<r>>
    /\ trace' = <<Step("salvage", 0)>>
    /\ pc' = "done"
    /\ UNCHANGED <<target, nChunks, idx, planReply, structure, results, mergePath, merged,
                   prepolish, allIssues, polishOut, peer, request>>

Next ==
    \/ ConvertEmpty
    \/ \E r \in TransformResponses : ConvertSingle(r)
    \/ \E r \in PlanResponses : Plan(r)
    \/ \E r \in TransformResponses : Transform(r)
    \/ MergeStep
    \/ \E r \in PolishResponses : PolishReturn(r)

Spec == Init /\ [][Next]_vars

\* the planner alone, on every text of up to MaxWords words
PlannerInit == Init /\ nChunks = 2
\* the planner is called once, at the start of the job
PlannerCalls == IF pc = "start" THEN PlannerResponses ELSE {}
PlannerNext == \E r \in PlannerCalls : Plan(r)
PlannerSpec == PlannerInit /\ [][PlannerNext]_vars

\* the merger alone, on every pair of fragment codes of up to MaxLines
\* lines: a job of two chunks whose transform calls answer an object that
\* holds the code
MergerInit == Init /\ nChunks = 2 /\ target = "Java"
MergerResponses ==
    {Content(<<Json(Dict(Str(Lns(c)), Absent, Absent, Absent))>>) :
        c \in SeqsUpTo(MergeLines, MaxLines) \ {<<>>}}
MergerCalls == IF pc = "transform" THEN MergerResponses ELSE {}
MergerNext ==
    \/ Plan(Content(<<>>))
    \/ \E r \in MergerCalls : Transform(r)
    \/ MergeStep
MergerSpec == MergerInit /\ [][MergerNext]_vars

\* a direct use of _polish_code(code, target), as a whole: on the code in
\* merged the first time, on the local repair of the first call the second
\* time
PolishCode(r) ==
    /\ pc \in {"start", "again"}
    /\ \E code \in {IF pc = "start" THEN merged ELSE prepolish} :
          /\ merged' = code
          /\ IF PolishSkipped(code)
             THEN /\ output' = ReturnedResult(Str(code))
                  /\ pc' = "done"
                  /\ UNCHANGED <<prepolish, polishOut>>
             ELSE \E g \in {PolishGate(r, LocalRepair(code, target), target)} :
                     /\ prepolish' = LocalRepair(code, target)
                     /\ polishOut' = [call |-> r.kind, fenced |-> r.fenced,
                                      accepted |-> g.accepted, engine |-> g.engine]
                     /\ output' = ReturnedResult(Str(g.code))
                     /\ pc' = IF pc = "start" THEN "again" ELSE "done"
    /\ trace' = Append(trace, Step("polish", 0))
    /\ UNCHANGED <<target, nChunks, idx, planReply, structure, replies, results,
                   mergePath, allIssues, peer, request>>

\* the polisher alone, on every code of up to MaxLines lines
RepairCodes == {Lns(c) : c \in SeqsUpTo(RepairLines, MaxLines) \ {<<>>}}
RepairInit ==
    /\ pc = "start"
    /\ target \in Targets
    /\ nChunks = 0
    /\ idx = 0
    /\ planReply = NotCalled
    /\ structure = Unplanned
    /\ replies = <<>>
    /\ results = <<>>
    /\ mergePath = "none"
    /\ merged \in RepairCodes
    /\ prepolish = EmptyText
    /\ allIssues = <<>>
    /\ polishOut = NotPolished
    /\ trace = <<>>
    /\ output = Running
    /\ peer = NoPeer
    /\ request = NoRequest
RepairCalls == IF pc \in {"start", "again"} THEN PolishResponses ELSE {}
RepairNext == \E r \in RepairCalls : PolishCode(r)
RepairSpec == RepairInit /\ [][RepairNext]_vars

\* Two jobs interleaved: two requests to /api/convert served by two threads.
\* Each request builds its own converter (app.py, line 345) and a job keeps
\* all it computes in local variables; the converter holds the client and
\* the model name only.  The variables other than peer are the locals of
\* the job that runs, peer holds the locals of the job that waits.

\* the locals of the job that runs, as job 1 or job 2
Locals ==
    [id |-> 3 - peer.id, pc |-> pc, target |-> target, nChunks |-> nChunks,
     idx |-> idx, planReply |-> planReply, structure |-> structure,
     replies |-> replies, results |-> results, mergePath |-> mergePath,
     merged |-> merged, prepolish |-> prepolish, allIssues |-> allIssues,
     polishOut |-> polishOut, trace |-> trace, output |-> output]

\* a job whose conversion_results are kept on a converter that the two
\* jobs share
ResumedOnSharedResults(own, other) == [own EXCEPT !.results = other.results]

\* what a job finds when it runs on, own being the locals it left and
\* other the locals of the job that ran meanwhile
Resumed(own, other) == own

\* the thread of the other job is scheduled
Switch ==
    /\ peer # NoPeer
    /\ peer' = Locals
    /\ \E mine \in {Resumed(peer, Locals)} :
          /\ pc' = mine.pc
          /\ target' = mine.target
          /\ nChunks' = mine.nChunks
          /\ idx' = mine.idx
          /\ planReply' = mine.planReply
          /\ structure' = mine.structure
          /\ replies' = mine.replies
          /\ results' = mine.results
          /\ mergePath' = mine.mergePath
          /\ merged' = mine.merged
          /\ prepolish' = mine.prepolish
          /\ allIssues' = mine.allIssues
          /\ polishOut' = mine.polishOut
          /\ trace' = mine.trace
          /\ output' = mine.output
    /\ UNCHANGED request

\* a job that has not started, as job 2
FreshJob(t, n) ==
    [id |-> 2, pc |-> "start", target |-> t, nChunks |-> n, idx |-> 0,
     planReply |-> NotCalled, structure |-> Unplanned, replies |-> <<>>,
     results |-> <<>>, mergePath |-> "none", merged |-> EmptyText,
     prepolish |-> EmptyText, allIssues |-> <<>>, polishOut |-> NotPolished,
     trace |-> <<>>, output |-> Running]

PairTargets == {"Java", "Python"}
PairTransformResponses == {Raise, Content(<<Json(GoodB)>>)}
PairPlanResponses == {Raise, Content(<<"class", "Foo", "JDBC">>)}
PairPolishResponses ==
    {PolishRaise, PolishText(FALSE, <<Ln("public class A {"), Ln("}")>>)}

PairInit ==
    /\ pc = "start"
    /\ target \in PairTargets
    /\ nChunks \in 0..MaxChunks
    /\ idx = 0
    /\ planReply = NotCalled
    /\ structure = Unplanned
    /\ replies = <<>>
    /\ results = <<>>
    /\ mergePath = "none"
    /\ merged = EmptyText
    /\ prepolish = EmptyText
    /\ allIssues = <<>>
    /\ polishOut = NotPolished
    /\ trace = <<>>
    /\ output = Running
    /\ peer \in {FreshJob(t, n) : t \in PairTargets, n \in 0..MaxChunks}
    /\ request = NoRequest
PairNext ==
    \/ ConvertEmpty
    \/ \E r \in PairTransformResponses : ConvertSingle(r)
    \/ \E r \in PairPlanResponses : Plan(r)
    \/ \E r \in PairTransformResponses : Transform(r)
    \/ MergeStep
    \/ \E r \in PairPolishResponses : PolishReturn(r)
    \/ Switch
PairSpec == PairInit /\ [][PairNext]_vars

\* the two response parsers alone, on every text of up to MaxSegs segments
ParserInit == Init /\ nChunks = 1
ParserNext ==
    \/ \E r \in ParserResponses : ConvertSingle(r)
    \/ \E r \in ParserResponses : Salvage(r)
ParserSpec == ParserInit /\ [][ParserNext]_vars

----------------------------------------------------------------------------
(* The request of a chunk transform: the call of                           *)
(* create_code_conversion_prompt in _convert_single_chunk, and the         *)
(* sections of the prompt it builds.                                       *)

\* the positional arguments of the call at lines 491-499, req being the
\* parameters of _convert_single_chunk
ChunkPromptArgs(req) ==
    <<req.source_language, req.target_language, req.code_chunk,
      req.business_requirements, req.vsam_definition,
      req.technical_requirements, req.db_setup_template>>

\* the parameters of create_code_conversion_prompt bound by position
\* (prompts.py, lines 664-676) and what the prompt says under each heading:
\* the VSAM section is left out for an empty definition, "" here
CreateCodeConversionPrompt(args) ==
    LET business_requirements == args[4]
        technical_requirements == args[5]
        db_setup_template == args[6]
        vsam_definition == args[7]
    IN [vsam |-> vsam_definition,
        database |-> IF db_setup_template # "" THEN db_setup_template
                     ELSE "No database setup required.",
        business |-> IF business_requirements # "" THEN business_requirements
                     ELSE "None provided.",
        technical |-> IF technical_requirements # "" THEN technical_requirements
                      ELSE "None provided."]

\* _convert_single_chunk up to its external call: the prompt is built
BuildChunkPrompt ==
    /\ pc = "prompt"
    /\ request' = [request EXCEPT !.stage = "built",
                      !.prompt = CreateCodeConversionPrompt(ChunkPromptArgs(request))]
    /\ pc' = "start"
    /\ UNCHANGED <<target, nChunks, idx, planReply, structure, replies, results,
                   mergePath, merged, prepolish, allIssues, polishOut, trace, output, peer>>

NoPrompt == [vsam |-> "", database |-> "", business |-> "", technical |-> ""]

\* the requirements a job is given: each one empty or not
ChunkRequests ==
    {[stage |-> "given", source_language |-> "COBOL", target_language |-> t,
      code_chunk |-> c, vsam_definition |-> vs, business_requirements |-> br,
      technical_requirements |-> tr, db_setup_template |-> db, prompt |-> NoPrompt] :
        t \in Targets, c \in {"chunk"},
        vs \in {"", "VSAM file"}, br \in {"", "business"},
        tr \in {"", "technical"}, db \in {"", "db template"}}

\* a job of one chunk with its requirements: the prompt, then the call
PromptInit ==
    /\ pc = "prompt"
    /\ request \in ChunkRequests
    /\ target = request.target_language
    /\ nChunks = 1
    /\ idx = 0
    /\ planReply = NotCalled
    /\ structure = Unplanned
    /\ replies = <<>>
    /\ results = <<>>
    /\ mergePath = "none"
    /\ merged = EmptyText
    /\ prepolish = EmptyText
    /\ allIssues = <<>>
    /\ polishOut = NotPolished
    /\ trace = <<>>
    /\ output = Running
    /\ peer = NoPeer
PromptResponses == {Raise, Content(<<Json(GoodB)>>)}
PromptNext ==
    \/ BuildChunkPrompt
    \/ \E r \in PromptResponses : ConvertSingle(r)
PromptSpec == PromptInit /\ [][PromptNext]_vars

----------------------------------------------------------------------------
(* The handler of /api/convert: convert_code of app.py.  request holds the *)
(* line count of the source code, the path taken, the stage of the         *)
(* handler, what the engine answered to the two test-generation calls and  *)
(* the response; target is targetLanguage, output is conversion_json.      *)

\* should_chunk_code: len(code.splitlines()) > line_threshold
LineThreshold == 24000
ShouldChunkCode(lines) == lines > LineThreshold

\* the targets the handler has a prompt function for (it compares in lower
\* case); for any other it imports create_code_conversion_prompt from
\* code_converter, which has no such name: ImportError
HasDirectPrompt(lang) == lang \in {"Java", "C#"}

NoResponse == [http |-> 0, status |-> "none", convertedCode |-> Str(EmptyText)]
MissingFields == [http |-> 400, status |-> "error", convertedCode |-> Str(EmptyText)]
SuccessResponse(converted_code) ==
    [http |-> 200, status |-> "success", convertedCode |-> converted_code]

\* an error response that gives the code converted so far
ErrorResponseWithCode(converted_code) ==
    [http |-> 500, status |-> "error", convertedCode |-> converted_code]

\* the response of the handler's except clause
ErrorResponse(converted_code) ==
    [http |-> 500, status |-> "error", convertedCode |-> Str(EmptyText)]

\* the handler reads an answer: content.strip(), json.loads, and
\* extract_json_from_response after a JSONDecodeError
ParseAnswer(r) ==
    IF r.kind # "text" THEN [raised |-> TRUE, res |-> NonDict("null")]
    ELSE The({ CASE direct.out = "ok" -> [raised |-> FALSE, res |-> direct.doc]
                 [] direct.out = "recursion" -> [raised |-> TRUE, res |-> NonDict("null")]
                 [] OTHER -> The({[raised |-> e.raised, res |-> e.res] :
                                     e \in {ExtractJsonFromResponse(r.text)}}) :
               direct \in {JsonLoads(r.text)} })

\* converted_code = conversion_json.get("convertedCode", "")
ConvertedCode == Get(output.value.convertedCode, Str(EmptyText))

Respond(resp) == request' = [request EXCEPT !.stage = "responded", !.response = resp]

\* lines 307-368: the required fields, the choice of the path, chunk_code
Route ==
    /\ pc = "request"
    /\ request.stage = "received"
    /\ IF request.lines = 0
       THEN /\ Respond(MissingFields)
            /\ UNCHANGED <<pc, nChunks>>
       ELSE IF ShouldChunkCode(request.lines)
       THEN /\ nChunks' \in 0..MaxChunks
            /\ pc' = "start"
            /\ request' = [request EXCEPT !.stage = "converting", !.path = "chunked"]
       ELSE IF HasDirectPrompt(target)
       THEN /\ pc' = "direct"
            /\ request' = [request EXCEPT !.stage = "converting", !.path = "direct"]
            /\ UNCHANGED nChunks
       ELSE /\ request' = [request EXCEPT !.stage = "responded", !.path = "direct",
                              !.response = ErrorResponse(Str(EmptyText))]
            /\ UNCHANGED <<pc, nChunks>>
    /\ UNCHANGED <<target, idx, planReply, structure, replies, results, mergePath,
                   merged, prepolish, allIssues, polishOut, trace, output, peer>>

\* lines 369-452: the conversion call of the direct path and its answer
DirectConvert(r) ==
    /\ pc = "direct"
    /\ \E answer \in {ParseAnswer(r)} :
          output' = IF answer.raised THEN RaisedError ELSE ReturnedResult(answer.res)
    /\ replies' = <<r>>
    /\ trace' = Append(trace, Step("convert", 0))
    /\ pc' = "done"
    /\ UNCHANGED <<target, nChunks, idx, planReply, structure, results, mergePath,
                   merged, prepolish, allIssues, polishOut, peer, request>>

\* lines 454-511: the fields of conversion_json, the unit-test call and its
\* answer
UnitTests(r) ==
    /\ pc = "done"
    /\ request.stage = "converting"
    /\ IF output.status = "raised" \/ output.value.kind # "obj"
       THEN /\ Respond(ErrorResponse(Str(EmptyText)))
            /\ UNCHANGED trace
       ELSE /\ trace' = Append(trace, Step("unit", 0))
            /\ \E answer \in {ParseAnswer(r)} :
                  IF answer.raised \/ answer.res.kind # "obj"
                  THEN request' = [request EXCEPT !.stage = "responded", !.unit = r,
                                      !.response = ErrorResponse(ConvertedCode)]
                  ELSE request' = [request EXCEPT !.stage = "functional", !.unit = r]
    /\ UNCHANGED <<pc, target, nChunks, idx, planReply, structure, replies, results,
                   mergePath, merged, prepolish, allIssues, polishOut, output, peer>>

\* lines 513-576: the functional-test call, its answer and the response
FunctionalTests(r) ==
    /\ request.stage = "functional"
    /\ trace' = Append(trace, Step("functional", 0))
    /\ \E answer \in {ParseAnswer(r)} :
          request' = [request EXCEPT !.stage = "responded", !.functional = r,
                         !.response = IF answer.raised THEN ErrorResponse(ConvertedCode)
                                      ELSE SuccessResponse(ConvertedCode)]
    /\ UNCHANGED <<pc, target, nChunks, idx, planReply, structure, replies, results,
                   mergePath, merged, prepolish, allIssues, polishOut, output, peer>>

\* the line counts of the source codes: none, one, and around the threshold
SourceLines == {0, 1} \cup ((LineThreshold - 1)..(LineThreshold + MaxChunks))

DirectResponses ==
    {Raise, Content(<<Json(GoodB)>>), Content(<<Json(NonDict("list"))>>), Content(<<Prose>>)}
TestResponses ==
    {Raise, NoContent, Content(<<Json(EmptyObject)>>), Content(<<Prose>>),
     Content(<<Json(NonDict("list"))>>)}

AppInit ==
    /\ pc = "request"
    /\ request \in {[stage |-> "received", lines |-> l, path |-> "none",
                     unit |-> NotCalled, functional |-> NotCalled,
                     response |-> NoResponse] : l \in SourceLines}
    /\ target \in Targets
    /\ nChunks = 0
    /\ idx = 0
    /\ planReply = NotCalled
    /\ structure = Unplanned
    /\ replies = <<>>
    /\ results = <<>>
    /\ mergePath = "none"
    /\ merged = EmptyText
    /\ prepolish = EmptyText
    /\ allIssues = <<>>
    /\ polishOut = NotPolished
    /\ trace = <<>>
    /\ output = Running
    /\ peer = NoPeer

AppNext ==
    \/ Route
    \/ \E r \in DirectResponses : DirectConvert(r)
    \/ ConvertEmpty
    \/ \E r \in PairTransformResponses : ConvertSingle(r)
    \/ \E r \in PairPlanResponses : Plan(r)
    \/ \E r \in PairTransformResponses : Transform(r)
    \/ MergeStep
    \/ \E r \in PairPolishResponses : PolishReturn(r)
    \/ \E r \in TestResponses : UnitTests(r)
    \/ \E r \in TestResponses : FunctionalTests(r)
AppSpec == AppInit /\ [][AppNext]_vars

----------------------------------------------------------------------------
(* _deduplicate_methods(class_content, method_regex) with the Java         *)
(* method_in_class_regex, on class contents whose lines are method         *)
(* headers, field declarations, "}" and blank lines, without indentation.  *)

\* f"{method_name}({','.join(param_types)})"
MethodSignature(l) == IF l.txt = "void g() {" THEN "g()" ELSE "f()"

\* the header starts with a modifier of the pattern's first group
HasModifier(l) == l.txt = "public void f() {"

\* match.group(0) for the header on line j.  A match starts with the first
\* group: at a modifier if the header has one, and otherwise the group is
\* empty and the \s* after it takes the white space before the header, back
\* to the end of the last line that is not blank
MethodMatch(code, j) ==
    IF HasModifier(code[j]) THEN <<code[j]>> ELSE FieldMatch(code, j)

\* method_signatures[signature] after the first loop: the first of the
\* longest texts matched with that signature
LongestMatch(code, sig) ==
    LET js == {j \in DOMAIN code : IsMethodHead(code[j]) /\ MethodSignature(code[j]) = sig}
        longest == {j \in js : \A k \in js :
                       TextLen(MethodMatch(code, k)) <= TextLen(MethodMatch(code, j))}
    IN MethodMatch(code, CHOOSE j \in longest : \A k \in longest : j <= k)

\* the headers whose match the second loop cuts out
CutHeads(code) ==
    {j \in DOMAIN code :
        /\ IsMethodHead(code[j])
        /\ LongestMatch(code, MethodSignature(code[j])) # MethodMatch(code, j)}

\* content[:match.start()] + content[match.end():] for every cut match
RECURSIVE CutFrom(_, _, _)
CutFrom(code, j, cut) ==
    IF j > Len(code) THEN <<>>
    ELSE IF \E r \in cut : ~HasModifier(code[r]) /\ BlankRunStart(code, r) <= j /\ j <= r
         THEN (IF j = 1 THEN <<Ln("")>> ELSE <<>>) \o CutFrom(code, j + 1, cut)
    ELSE IF j \in cut THEN <<Ln("")>> \o CutFrom(code, j + 1, cut)
    ELSE <<code[j]>> \o CutFrom(code, j + 1, cut)

DeduplicateMethods(code) == CutFrom(code, 1, CutHeads(code))

\* _deduplicate_methods on the class content held in merged
Deduplicate ==
    /\ pc = "start"
    /\ output' = ReturnedResult(Str(DeduplicateMethods(merged)))
    /\ pc' = "done"
    /\ UNCHANGED <<target, nChunks, idx, planReply, structure, replies, results,
                   mergePath, merged, prepolish, allIssues, polishOut, trace, peer,
                   request>>

\* the lines of the class contents given to _deduplicate_methods
DedupLines == {"", "void f() {", "public void f() {", "void g() {", "int x;", "}"}

DedupInit ==
    /\ pc = "start"
    /\ target = "Java"
    /\ nChunks = 0
    /\ idx = 0
    /\ planReply = NotCalled
    /\ structure = Unplanned
    /\ replies = <<>>
    /\ results = <<>>
    /\ mergePath = "none"
    /\ merged \in {Lns(c) : c \in SeqsUpTo(DedupLines, MaxLines) \ {<<>>}}
    /\ prepolish = EmptyText
    /\ allIssues = <<>>
    /\ polishOut = NotPolished
    /\ trace = <<>>
    /\ output = Running
    /\ peer = NoPeer
    /\ request = NoRequest
DedupNext == Deduplicate
DedupSpec == DedupInit /\ [][DedupNext]_vars

----------------------------------------------------------------------------
(* The merger on fragments that hold routines: every pair of fragment      *)
(* codes of up to MaxLines lines made of a class header, the header of a   *)
(* routine, a field declaration and "}".                                   *)

ClassMergeLines == {"public class A {", "void f() {", "}", "int x;"}
ClassMergeResponses ==
    {Content(<<Json(Dict(Str(Lns(c)), Absent, Absent, Absent))>>) :
        c \in SeqsUpTo(ClassMergeLines, MaxLines) \ {<<>>}}
ClassMergeCalls == IF pc = "transform" THEN ClassMergeResponses ELSE {}
ClassMergeNext ==
    \/ Plan(Content(<<>>))
    \/ \E r \in ClassMergeCalls : Transform(r)
    \/ MergeStep
ClassMergeSpec == MergerInit /\ [][ClassMergeNext]_vars

----------------------------------------------------------------------------
(* Properties of the job, the planner and the response parsers *)

MultiChunk == nChunks >= 2
JobReturned == pc = "done" /\ output.status = "returned"
FinalCode == output.value.convertedCode
FinalIssues == output.value.potentialIssues

\* C1: a job of two or more chunks always ends by returning a result; no
\* response of the engine, whatever its shape, makes convert_code_chunks
\* raise to its caller.
C1_MultiChunkJobReturns ==
    (MultiChunk /\ pc = "done") => output.status = "returned"

\* C2: whenever the structured merge raises, the fallback merge returns:
\* the job never ends with the fallback merge raising in its turn, and the
\* failure of the structured merge is among the issues.
C2_FallbackMergeReturns ==
    /\ mergePath # "fallback raised"
    /\ (mergePath = "recovered" /\ JobReturned) =>
           \E i \in DOMAIN FinalIssues.v : FinalIssues.v[i] = MergeErrorIssue

\* C3: neither _convert_single_chunk nor extract_json_from_response raises,
\* whatever the response.
C3_ParsersNeverRaise ==
    (pc = "done" /\ trace # <<>> /\ trace[1].step \in {"transform", "salvage"}) =>
        output.status = "returned"

\* a record {code: string, notes: string, issues: list, usesPersistence: bool}
IsFragmentRecord(res) ==
    /\ res.kind = "obj"
    /\ res.convertedCode.t = "str"
    /\ res.conversionNotes.t = "str"
    /\ res.potentialIssues.t = "list"
    /\ res.databaseUsed.t = "bool"

\* C4: every fragment result handed to the merger is a record with a string
\* code, string notes, a list of issues and a boolean persistence flag.
C4_FragmentsAreRecords ==
    \A i \in DOMAIN results : IsFragmentRecord(results[i])

Keywords == {"class", "interface", "package", "Package", "namespace"}

\* no pattern of _get_code_structure has a match in the text: no keyword is
\* followed by a name, no word names a database interface or a design
\* pattern, and "custom exception" does not occur
MatchesNoPattern(words) ==
    /\ \A i \in DOMAIN words :
          ~WordInfo(words[i]).db /\ WordInfo(words[i]).patterns = {}
    /\ \A i \in 1..(Len(words) - 1) :
          /\ words[i] \notin Keywords
          /\ ~(words[i] = "custom" /\ words[i + 1] = "exception")

ZeroBlueprint(info) ==
    /\ info.classes = {}
    /\ info.interfaces = {}
    /\ info.patterns = {}
    /\ info.package = <<>>
    /\ info.database_access = FALSE
    /\ info.exception_strategy = "standard"

\* C5: the planner never raises; when the call raises, returns no content,
\* an empty text or a text that matches none of the patterns, the blueprint
\* has no classes, interfaces or patterns, no package, database_access
\* false and exception_strategy "standard".
C5_PlannerNeverRaises ==
    planReply.kind # "notcalled" =>
        /\ output.status # "raised"
        /\ pc = "transform"
        /\ (planReply.kind \in {"raise", "none"} \/ MatchesNoPattern(planReply.text)) =>
               ZeroBlueprint(structure)

C5_Witness ==
    /\ planReply.kind = "raise"
    /\ pc = "transform"
    /\ structure = DefaultStructure

\* C6: a job of one chunk makes one external call, the transform of that
\* chunk: no planning call, no merge, no polish, and what the caller gets is
\* the result of that transform, unchanged.
C6_SingleChunkPassThrough ==
    nChunks = 1 =>
        /\ planReply = NotCalled
        /\ structure = Unplanned
        /\ results = <<>>
        /\ mergePath = "none"
        /\ polishOut = NotPolished
        /\ pc \in {"start", "done"}
        /\ pc = "done" =>
              /\ trace = <<Step("transform", 1)>>
              /\ Len(replies) = 1
              /\ output = ReturnedResult(ConvertSingleChunk(replies[1], target).res)

C6_Witness ==
    /\ nChunks = 1
    /\ pc = "done"
    /\ replies = <<Content(<<Json(GoodA)>>)>>
    /\ output.status = "returned"
    /\ FinalCode = GoodA.convertedCode

\* the steps of a multi-chunk job that runs to its end
ExpectedSteps(n, lang) ==
    <<Step("plan", 0)>>
    \o [i \in 1..n |-> Step("transform", i)]
    \o <<Step("merge", 0)>>
    \o (IF lang \in {"Java", "C#"}
        THEN <<Step("polish", 0), Step("validate", 0)>>
        ELSE <<>>)

IsPrefix(s, t) == Len(s) <= Len(t) /\ s = SubSeq(t, 1, Len(s))

C8_PolishGate ==
    (MultiChunk /\ JobReturned /\ polishOut.call # "notcalled") =>
        /\ polishOut.accepted => HasMarker(polishOut.engine)
        /\ ~polishOut.accepted => FinalCode = Str(prepolish)

ExternalCallFailed ==
    \/ planReply.kind \in {"raise", "none"}
    \/ \E i \in DOMAIN replies : replies[i].kind \in {"raise", "none"}
    \/ polishOut.call \in {"raise", "none"}

\* C9: when an external call of a job failed (planning, a transform or the
\* polish), the issues of the final result are not empty.
C9_FailuresSurfaced ==
    (MultiChunk /\ JobReturned /\ ExternalCallFailed) => FinalIssues.v # <<>>

\* the transform call of every chunk raised or returned no content
AllTransformsFailed ==
    \A i \in DOMAIN replies : replies[i].kind \in {"raise", "none"}

\* no fragment carries any code
NoFragmentHasCode ==
    \A i \in DOMAIN results :
        results[i].kind # "obj" \/ ~Truthy(results[i].convertedCode)

\* C10: the final code of a multi-chunk job is the empty string only if no
\* fragment carried code, and it is the empty string whenever the transform
\* call of every chunk failed.
C10_EmptyOnlyIfAllFailed ==
    (MultiChunk /\ JobReturned) =>
        /\ FinalCode = Str(EmptyText) => NoFragmentHasCode
        /\ AllTransformsFailed => FinalCode = Str(EmptyText)

----------------------------------------------------------------------------
(* Properties of the salvage stages *)

SalvageDone == pc = "done" /\ trace = <<Step("salvage", 0)>>
TransformDone == pc = "done" /\ trace = <<Step("transform", 1)>> /\ nChunks = 1

\* json.loads of the whole text ends in a decode error
DirectFails(text) == JsonLoads(text).out = "decode"

\* what each salvage stage makes of a text, taken alone
FencedStage(text) == TryBlocks(FencedBlocks(text, 1))
BraceStage(text) == TryPieces(text, BraceEvents(text, 1), 1)
TruncatedStage(text) ==
    IF TextOpens(text) > TextCloses(text)
       /\ HasKey(text, "convertedCode") /\ HasKey(text, "conversionNotes")
    THEN [out |-> "ok", doc |-> TruncatedRepair(text)]
    ELSE [out |-> "none", doc |-> NonDict("null")]

\* the result of the earliest stage that succeeds, in the order fenced
\* block, brace object, truncated fields, extraction failure
InStatedOrder(text) ==
    IF FencedStage(text).out = "ok" THEN FencedStage(text).doc
    ELSE IF BraceStage(text).out = "ok" THEN BraceStage(text).doc
    ELSE IF TruncatedStage(text).out = "ok" THEN TruncatedStage(text).doc
    ELSE LastResort

\* C11: when the direct parse of a response fails, what
\* extract_json_from_response returns is the result of the earliest stage
\* that succeeds on the text, the stages taken in the order (a) fenced
\* block, (b) balanced-brace object, (c) fields of a truncated text,
\* (d) the extraction-failure result.
C11_SalvageOrder ==
    (SalvageDone /\ JobReturned /\ DirectFails(replies[1].text)) =>
        output.value = InStatedOrder(replies[1].text)

\* the objects that the fenced blocks of a text hold
FencedObjects(text) ==
    LET blocks == FencedBlocks(text, 1)
    IN {JsonLoads(blocks[i]).doc :
          i \in {j \in DOMAIN blocks : /\ JsonLoads(blocks[j]).out = "ok"
                                        /\ JsonLoads(blocks[j]).doc.kind = "obj"}}

ParserDone == (SalvageDone \/ TransformDone) /\ replies[1].kind = "text"

\* C12: when a response does not parse as it is but holds a fenced block
\* whose content is a valid object, the parser returns the parse of that
\* fenced content: extract_json_from_response returns the object, and the
\* code field of what _convert_single_chunk returns is the object's code.
C12_FencedBlockParsed ==
    (ParserDone /\ JsonLoads(replies[1].text).out # "ok"
       /\ FencedObjects(replies[1].text) # {}) =>
        /\ output.status = "returned"
        /\ \E d \in FencedObjects(replies[1].text) :
              /\ output.value.kind = "obj"
              /\ output.value.convertedCode = d.convertedCode
              /\ SalvageDone => output.value = d

\* a text with an opening brace, the key convertedCode and no closing brace
IsTruncated(text) ==
    /\ TextOpens(text) > 0
    /\ TextCloses(text) = 0
    /\ HasKey(text, "convertedCode")

\* the value written for convertedCode in the first object of the text
PartialCode(text) ==
    LET first == CHOOSE i \in DOMAIN text :
                    SegOpens(text[i]) > 0 /\ \A j \in 1..(i - 1) : SegOpens(text[j]) = 0
    IN text[first].doc.convertedCode

TruncatedIssue == Ln("Response was truncated - some content may be missing")

\* C13: for a response that is a truncated text (an opening brace, the key
\* convertedCode, no closing brace) the parser returns the partial value of
\* convertedCode as code, and "Response was truncated - some content may
\* be missing" is among the issues.
C13_TruncatedSalvaged ==
    (ParserDone /\ IsTruncated(replies[1].text)) =>
        /\ output.status = "returned"
        /\ output.value.kind = "obj"
        /\ output.value.convertedCode = PartialCode(replies[1].text)
        /\ output.value.potentialIssues.t = "list"
        /\ \E i \in DOMAIN output.value.potentialIssues.v :
              output.value.potentialIssues.v[i] = TruncatedIssue

----------------------------------------------------------------------------
(* Properties of the structured merge *)

MergeDone == pc \in {"polish", "done"} /\ mergePath = "structured"
FragmentCode(i) == results[i].convertedCode.v

\* the line that closes the block entered at depth `depth` before line k,
\* counting braces; Len(code) + 1 when the block is not closed
RECURSIVE BlockEnd(_, _, _)
BlockEnd(code, k, depth) ==
    IF k > Len(code) THEN k
    ELSE LET d == depth + LineInfo(code[k].txt).opens - LineInfo(code[k].txt).closes
         IN IF d <= 0 THEN k ELSE BlockEnd(code, k + 1, d)

HeaderA == "public class A {"

\* the code is one complete declaration of class A: the header, the body,
\* and the "}" that closes the class as its last line
DeclaresA(code) ==
    /\ Len(code) >= 2
    /\ code[1] = Ln(HeaderA)
    /\ code[Len(code)] = Ln("}")
    /\ BlockEnd(code, 2, 1) = Len(code)

BodyOf(code) == SubSeq(code, 2, Len(code) - 1)

RECURSIVE NonBlankTxts(_)
NonBlankTxts(code) ==
    IF code = <<>> THEN <<>>
    ELSE (IF IsBlank(Head(code)) THEN <<>> ELSE <<Head(code).txt>>)
         \o NonBlankTxts(Tail(code))

\* the bodies of fragments i.., one after the other
RECURSIVE BodiesFrom(_)
BodiesFrom(i) ==
    IF i > Len(results) THEN <<>>
    ELSE BodyOf(FragmentCode(i)) \o BodiesFrom(i + 1)

\* C14: when every fragment declares class A, the merged code holds exactly
\* one header of class A, and the body under that header (up to the brace
\* that closes it) is the bodies of the fragments in chunk order, blank
\* lines apart.
C14_OneHeaderPerClass ==
    (MergeDone /\ \A i \in DOMAIN results : DeclaresA(FragmentCode(i))) =>
        LET heads == {h \in DOMAIN merged : merged[h].txt = HeaderA}
        IN /\ Cardinality(heads) = 1
           /\ \A h \in heads :
                 NonBlankTxts(SubSeq(merged, h + 1, BlockEnd(merged, h + 1, 1) - 1))
                     = NonBlankTxts(BodiesFrom(1))

\* the lines of the merged code after its "// Additional Code" line
AdditionalSection ==
    LET at == {m \in DOMAIN merged : merged[m] = Ln("// Additional Code")}
    IN IF at = {} THEN <<>>
       ELSE SubSeq(merged, (CHOOSE m \in at : \A n \in at : m <= n) + 1, Len(merged))

\* the lines of `block` occur in `code`, one after the other
IsBlockIn(block, code) ==
    \E p \in 0..(Len(code) - Len(block)) :
        SubSeq(code, p + 1, p + Len(block)) = block

\* C18: what the patterns of the structured merge leave of a fragment's
\* code (the text that is no package, import, constant, field, class or
\* standalone method) is in the merged code, as it is, in the section that
\* "// Additional Code" opens.
C18_ResidualRetained ==
    MergeDone =>
        \A i \in DOMAIN results :
            LET rest == Residual(FragmentCode(i), target)
            IN rest # EmptyText => IsBlockIn(rest, AdditionalSection)

----------------------------------------------------------------------------
(* Properties of the validation of a fragment and of the transform call *)

\* what _convert_single_chunk parses of a response text: json.loads of the
\* text, or of its brace span when the text does not parse
ParsedReply(text) ==
    IF JsonLoads(text).out = "decode" THEN JsonLoads(BraceSpan(text))
    ELSE JsonLoads(text)

IssuesOf(doc) == Get(doc.potentialIssues, List(<<>>)).v

\* the response was parsed into an object with a code string, and the
\* target is one that _validate_code is run for
FragmentValidated ==
    /\ TransformDone
    /\ replies[1].kind = "text"
    /\ IsOOP(target)
    /\ ParsedReply(replies[1].text).out = "ok"
    /\ ParsedReply(replies[1].text).doc.kind = "obj"
    /\ ParsedReply(replies[1].text).doc.convertedCode.t = "str"

\* C19: the validation of a parsed fragment is advisory: the fragment that
\* _convert_single_chunk returns holds the parsed code unchanged, its
\* issues are the parsed issues followed by the findings, and no finding
\* makes the code be withheld or replaced.
C19_ValidationAdvisory ==
    FragmentValidated =>
        \E doc \in {ParsedReply(replies[1].text).doc} :
           /\ output.status = "returned"
           /\ output.value.kind = "obj"
           /\ output.value.convertedCode = doc.convertedCode
           /\ IssuesOf(output.value)
                 = IssuesOf(doc) \o Lns(CodeFindings(doc.convertedCode.v, target))

\* the number of transform calls made for chunk i
CallsFor(i) == Cardinality({j \in DOMAIN trace : trace[j] = Step("transform", i)})

\* the fragment result that the transform of chunk i ended with
FragmentOf(i) == IF SingleChunk(nChunks) THEN output.value ELSE results[i]

\* C20: when the transform call of a chunk fails, the call is made again
\* (with backoff, a small fixed number of times) before the chunk's result
\* degrades to the failure fragment; the failure is not raised.
C20_TransformRetried ==
    \A i \in DOMAIN replies :
       (replies[i].kind = "raise" /\ trace[1].step # "salvage") =>
           /\ CallsFor(i) > 1
           /\ FragmentOf(i) = ApiErrorResult

----------------------------------------------------------------------------
(* Properties of the local repair *)

\* _polish_code has been used once on the code in merged and has repaired it
RepairedOnce == pc = "again"
\* it has been used again, on the repair of the first call
RepairedTwice == pc = "done" /\ Len(trace) = 2

Openers(code) == Count(code, "opens")
Closers(code) == Count(code, "closes")
LastLine(code) == code[Len(code)]

\* the absolute difference that the brace check of the validators reports
Mismatch(code) ==
    IF BraceIssue(code, " in merged code") = <<>> THEN 0
    ELSE IF Openers(code) > Closers(code) THEN Openers(code) - Closers(code)
    ELSE Closers(code) - Openers(code)

\* C15: when a code holds more opening than closing braces, the local
\* repair appends exactly the missing number of closing braces at the end
\* of the text, and the validation of the repaired code reports no brace
\* mismatch.
C15_DeficitAppended ==
    (RepairedOnce /\ Openers(merged) > Closers(merged)) =>
        /\ Closers(prepolish) = Openers(merged)
        /\ StartsClose(LastLine(prepolish))
        /\ LineInfo(LastLine(prepolish).txt).closes >= Openers(merged) - Closers(merged)
        /\ BraceIssue(prepolish, "") = <<>>

\* C16: the local repair is idempotent: repairing the repaired code gives
\* the repaired code again.
C16_RepairIdempotent == RepairedTwice => prepolish = merged

\* C17: the brace mismatch that validation reports on the repaired code
\* is never higher than the one it reports on the original code.
C17_MismatchNotHigher == RepairedOnce => Mismatch(prepolish) <= Mismatch(merged)

----------------------------------------------------------------------------
(* Properties of the job on an empty chunk list *)

NoCallMade ==
    /\ trace = <<>>
    /\ planReply = NotCalled
    /\ replies = <<>>
    /\ polishOut = NotPolished

\* C30: convert_code_chunks on an empty chunk list makes no external call
\* and returns a result with empty code, the persistence flag false and
\* issues that say that no source code was provided.
C30_EmptyJob ==
    (pc = "done" /\ nChunks = 0) =>
        /\ NoCallMade
        /\ output.status = "returned"
        /\ FinalCode = Str(EmptyText)
        /\ output.value.databaseUsed = Bool(FALSE)
        /\ FinalIssues = List(<<Ln("No source code was provided")>>)

C30_Witness == pc = "done" /\ nChunks = 0 /\ output.status = "returned"

----------------------------------------------------------------------------
(* Properties of two interleaved jobs *)

\* what a job was given: its input and the responses to its own calls
Given(job) ==
    [target |-> job.target, nChunks |-> job.nChunks, planReply |-> job.planReply,
     replies |-> job.replies, call |-> job.polishOut.call,
     fenced |-> job.polishOut.fenced, engine |-> job.polishOut.engine]

BothDone == peer # NoPeer /\ pc = "done" /\ peer.pc = "done"

\* two jobs that were given the same end with the same result
SameGivenSameResult ==
    (BothDone /\ Given(Locals) = Given(peer)) => output = peer.output

----------------------------------------------------------------------------
(* Properties of the order of the merged code *)

\* the group a line of the merged code belongs to by what it declares:
\* 1 package declaration, 2 import, 3 constant, 4 field, 5 class,
\* 6 free routine, 7 residual text; 0 for a blank line
GroupOf(l, lang) ==
    CASE IsBlank(l) -> 0
      [] IsPackageLine(l, lang) -> 1
      [] IsImportLine(l, lang) -> 2
      [] l = Ln("// Constants") -> 3
      [] l = Ln("// Fields") \/ IsFieldLine(l) -> 4
      [] IsClassHead(l) -> 5
      [] l = Ln("// Utility Methods") -> 6
      [] l = Ln("// Additional Code") -> 7
      [] OTHER -> 0

\* the lines of the merged code up to its first class, "// Utility Methods"
\* or "// Additional Code" line: the package, imports, constants and fields
DeclarationLines ==
    {k \in DOMAIN merged :
        \A h \in 1..(k - 1) : GroupOf(merged[h], target) \notin {5, 6, 7}}

\* C24: the merged code is in the order package declaration, imports,
\* constants, fields, classes, free routines, residual text: up to the first
\* class no line of a later group stands before a line of an earlier group.
C24_FixedOrder ==
    MergeDone =>
        \A i, j \in DeclarationLines :
            (i < j /\ GroupOf(merged[i], target) > 0 /\ GroupOf(merged[j], target) > 0)
                => GroupOf(merged[i], target) <= GroupOf(merged[j], target)

\* the sections themselves are written in the stated order
C24_SectionsInOrder ==
    MergeDone =>
        \A i, j \in DOMAIN merged :
            LET Mark(k) == IF merged[k] \in {Ln("// Constants"), Ln("// Fields"),
                                              Ln("// Utility Methods"), Ln("// Additional Code")}
                           THEN GroupOf(merged[k], target) ELSE 0
            IN (i < j /\ Mark(i) > 0 /\ Mark(j) > 0) => Mark(i) < Mark(j)

----------------------------------------------------------------------------
(* Properties of the gate of the polish call *)

\* the polish call returned a text that is fenced or holds a marker
EngineOutputUsable ==
    /\ polishOut.call = "text"
    /\ polishOut.fenced \/ HasMarker(polishOut.engine)

\* C27: _quick_validate reports at most two issues, so whenever the polish
\* call returns a text that is fenced or holds a class, package or namespace
\* marker, the code of the job is the engine's code, whatever its braces and
\* its handlers are.
C27_EngineOutputReturned ==
    (JobReturned /\ EngineOutputUsable) =>
        /\ Len(QuickValidate(polishOut.engine, target)) <= 2
        /\ polishOut.accepted
        /\ FinalCode = Str(polishOut.engine)

\* the engine's code has unbalanced braces and an empty handler, and it is
\* the code of the job
C27_Witness ==
    /\ JobReturned
    /\ EngineOutputUsable
    /\ Len(QuickValidate(polishOut.engine, target)) = 2
    /\ FinalCode = Str(polishOut.engine)

----------------------------------------------------------------------------
(* Properties of the aggregation of issues and flags *)

\* the issues of fragment i under the label of its chunk
LabelledIssues(i) ==
    [k \in DOMAIN IssuesOf(results[i]) |->
        Ln(ChunkLabel(i) \o IssuesOf(results[i])[k].txt)]

RECURSIVE LabelledFrom(_)
LabelledFrom(i) ==
    IF i > Len(results) THEN <<>>
    ELSE LabelledIssues(i) \o LabelledFrom(i + 1)

\* the final issues are: the merge-failure entry if there is one, every
\* issue of every fragment once under its label, in chunk order, and the
\* findings of the final validation
IssuesAggregated ==
    \E failure \in {<<>>, <<MergeErrorIssue>>} :
        FinalIssues =
            List(failure \o LabelledFrom(1)
                 \o (IF IsOOP(target)
                     THEN Lns(ValidateMergedCode(FinalCode, target)) ELSE <<>>))

FlagAggregated ==
    output.value.databaseUsed =
        Bool(\E i \in DOMAIN results : results[i].databaseUsed = Bool(TRUE))

\* C26: in the result of a job of two or more chunks, every issue of
\* fragment i is in the final issues exactly once as "Chunk i: <issue>", in
\* chunk order, after the merge-failure entry and before the findings of
\* the final validation; the final flag is true iff some fragment's is.
C26_IssuesAggregated ==
    (MultiChunk /\ JobReturned) => (IssuesAggregated /\ FlagAggregated)

\* the same for jobs whose fragments have a list of issues, or none
C26_ListIssuesAggregated ==
    (/\ MultiChunk /\ JobReturned
     /\ \A i \in DOMAIN results : Get(results[i].potentialIssues, List(<<>>)).t = "list")
        => (IssuesAggregated /\ FlagAggregated)

----------------------------------------------------------------------------
(* Properties of the request of a chunk transform *)

\* what a heading of the prompt shows for a requirement
Shown(text, default) == IF text # "" THEN text ELSE default

PromptBuilt == request.stage = "built"

\* C28: the business requirements, the technical requirements, the database
\* setup template and the VSAM definition given to _convert_single_chunk
\* are what the prompt shows under the heading of the same role.
C28_RequirementsReachTheirSlots ==
    PromptBuilt =>
        /\ request.prompt.business = Shown(request.business_requirements, "None provided.")
        /\ request.prompt.technical = Shown(request.technical_requirements, "None provided.")
        /\ request.prompt.database =
               Shown(request.db_setup_template, "No database setup required.")
        /\ request.prompt.vsam = request.vsam_definition

\* what the call does: the business requirements are in place, the other
\* three are one slot off
C28_SlotsRotated ==
    PromptBuilt =>
        /\ request.prompt.business = Shown(request.business_requirements, "None provided.")
        /\ request.prompt.technical = Shown(request.vsam_definition, "None provided.")
        /\ request.prompt.database =
               Shown(request.technical_requirements, "No database setup required.")
        /\ request.prompt.vsam = request.db_setup_template

----------------------------------------------------------------------------
(* Properties of the handler of /api/convert *)

Routed == request.stage \notin {"received", "none"} /\ request.lines > 0
Responded == request.stage = "responded"
StepsNamed(name) == {i \in DOMAIN trace : trace[i].step = name}

\* segmentation is invoked exactly when the line count exceeds the threshold
C23_ChunkedIffAboveThreshold ==
    Routed => (request.path = "chunked" <=> request.lines > LineThreshold)

\* the whole text was converted by one call, without a planning call
ConvertedAsOneUnit ==
    /\ Cardinality(StepsNamed("convert")) = 1
    /\ StepsNamed("plan") = {}
    /\ StepsNamed("transform") = {}

\* C23: the source code is segmented exactly when it has more lines than
\* the threshold; a source code of at most that many lines is converted as
\* a single unit, and no planning call is made.
C23_SegmentationTrigger ==
    /\ C23_ChunkedIffAboveThreshold
    /\ (Responded /\ request.lines > 0 /\ request.lines <= LineThreshold)
           => ConvertedAsOneUnit

\* the same for the targets the handler has a prompt function for
C23_DirectTargetsOneUnit ==
    (Responded /\ request.lines > 0 /\ request.lines <= LineThreshold
        /\ HasDirectPrompt(target)) => ConvertedAsOneUnit

\* 1 for a step of the conversion, 2 for the unit-test call, 3 for the
\* functional-test call
Phase(s) == CASE s.step = "unit" -> 2 [] s.step = "functional" -> 3 [] OTHER -> 1

CallsInOrder ==
    /\ \A i, j \in DOMAIN trace : i < j => Phase(trace[i]) <= Phase(trace[j])
    /\ Cardinality(StepsNamed("unit")) <= 1
    /\ Cardinality(StepsNamed("functional")) <= 1
    /\ StepsNamed("functional") # {} => StepsNamed("unit") # {}

SomeCallRaised ==
    \/ output.status = "raised"
    \/ request.unit.kind = "raise"
    \/ request.functional.kind = "raise"

----------------------------------------------------------------------------
(* Properties of _deduplicate_methods *)

Deduplicated == pc = "done" /\ output.status = "returned"
HeadsOf(code, sig) ==
    {j \in DOMAIN code : IsMethodHead(code[j]) /\ MethodSignature(code[j]) = sig}
Signatures == {"f()", "g()"}

\* the lines of a code that are the headers of signature sig, in order
RECURSIVE HeadTxts(_, _)
HeadTxts(code, sig) ==
    IF code = <<>> THEN <<>>
    ELSE (IF IsMethodHead(Head(code)) /\ MethodSignature(Head(code)) = sig
          THEN <<Head(code).txt>> ELSE <<>>) \o HeadTxts(Tail(code), sig)

\* the lines of a code that are neither blank nor a method header, in order
RECURSIVE OtherTxts(_)
OtherTxts(code) ==
    IF code = <<>> THEN <<>>
    ELSE (IF IsBlank(Head(code)) \/ IsMethodHead(Head(code)) THEN <<>>
          ELSE <<Head(code).txt>>) \o OtherTxts(Tail(code))

\* of a signature that occurs more than once, one definition is retained:
\* one that no other is longer than
OneLongestRetained ==
    \A sig \in Signatures :
        Cardinality(HeadsOf(merged, sig)) >= 2 =>
            /\ Cardinality(HeadsOf(output.value.v, sig)) = 1
            /\ \A j \in HeadsOf(output.value.v, sig) : \A k \in HeadsOf(merged, sig) :
                   LineInfo(merged[k].txt).len <= LineInfo(output.value.v[j].txt).len

\* a routine whose signature occurs once is left as it is
UniqueUnchanged ==
    \A sig \in Signatures :
        Cardinality(HeadsOf(merged, sig)) = 1 =>
            HeadTxts(output.value.v, sig) = HeadTxts(merged, sig)

\* no text outside the matches is deleted
OnlyMatchesCut == OtherTxts(output.value.v) = OtherTxts(merged)

\* C25: _deduplicate_methods retains, for every signature that occurs more
\* than once in a class body, exactly one definition, the longest one, and
\* drops the others; routines with a unique signature are left unchanged
\* and no text outside the dropped matches is deleted.
C25_DuplicatesDropped ==
    Deduplicated => (OneLongestRetained /\ UniqueUnchanged /\ OnlyMatchesCut)

\* what holds: unique routines are unchanged and only matches are cut
C25_OnlyMatchesCut ==
    Deduplicated => (UniqueUnchanged /\ OnlyMatchesCut)

----------------------------------------------------------------------------
(* Properties of the merged class bodies *)

\* the lines of the body of the class whose header is line h of the merged
\* code: from the header to the "}" that the merger writes after the contents
ClassBodyLines(h) ==
    LET e == FirstClose(merged, h + 1)
    IN (h + 1)..((IF e > 0 THEN e ELSE Len(merged) + 1) - 1)

MethodHeadsIn(code) == {k \in DOMAIN code : IsMethodHead(code[k])}

\* the headers of the class blocks of the merged code: the class headers
\* that stand before the sections of the free routines and the residual text
MergedClassHeads ==
    {h \in DOMAIN merged :
        /\ IsClassHead(merged[h])
        /\ \A g \in 1..h :
              merged[g] \notin {Ln("// Utility Methods"), Ln("// Additional Code")}}

\* C22: the merger deduplicates the routines of a merged class by signature:
\* no body of a class of the merged code holds two routine headers with the
\* same signature.
C22_NoDuplicateSignatures ==
    MergeDone =>
        \A h \in MergedClassHeads :
                \A i, j \in ClassBodyLines(h) \cap MethodHeadsIn(merged) :
                    i # j => MethodSignature(merged[i]) # MethodSignature(merged[j])

\* the number of routine headers in the class matches of fragment i
RECURSIVE HeadsInMatches(_)
HeadsInMatches(found) ==
    IF found = <<>> THEN 0
    ELSE Cardinality(MethodHeadsIn(Head(found).content)) + HeadsInMatches(Tail(found))

\* the contents of the classes of one name are joined whole: the body of the
\* merged class, which starts at the first class header of the merged code,
\* holds every routine header of every fragment's class
C22_ContentsJoined ==
    (MergeDone /\ Len(results) = 2) =>
        \A h \in MergedClassHeads :
            (\A g \in MergedClassHeads : h <= g) =>
                Cardinality(ClassBodyLines(h) \cap MethodHeadsIn(merged))
                    = HeadsInMatches(ClassMatches(FragmentCode(1), 1))
                      + HeadsInMatches(ClassMatches(FragmentCode(2), 1))

====
